---- MODULE Spec2Model ----
(***************************************************************************)
(* The alignment history of the ephys-atlas GUI (MainWindow in             *)
(* atlaselectrophysiology/ephys_atlas_gui.py): a cyclic buffer of max_idx  *)
(* slots of track/feature coordinate arrays, the cursor that the fit,      *)
(* offset, reset, move, previous and next commands move over it, and the   *)
(* reference lines a fit is computed from.                                 *)
(*                                                                         *)
(* Depths are integers in micrometres.  The program keeps line positions   *)
(* in micrometres and slot arrays in metres (position / 1e6, a float); the *)
(* model keeps both in micrometres, so x / 1e6 is the unit change and      *)
(* floating-point rounding is outside the model.                           *)
(***************************************************************************)
EXTENDS Integers, Sequences, FiniteSets, TLC

VARIABLES
    idx,             \* self.idx: the slot displayed
    idx_prev,        \* self.idx_prev: the slot an edit reads from
    current_idx,     \* self.current_idx
    total_idx,       \* self.total_idx
    last_idx,        \* self.last_idx
    diff_idx,        \* self.diff_idx
    lin_fit,         \* self.lin_fit
    lines_features,  \* self.lines_features: rows of three marker positions
    lines_tracks,    \* self.lines_tracks: rows of one marker position
    points,          \* self.points: rows of one fit-plot point <<x, y>>
    tip_pos,         \* self.tip_pos.value()
    top_pos,         \* self.top_pos.value()
    track,           \* self.loaddata.track: slot -> array
    features,        \* self.loaddata.features: slot -> array
    track_init,      \* self.loaddata.track_init
    \* history variables every specification keeps
    cmd,             \* the last command issued
    took,            \* TRUE when the last command passed its guard and acted
    owner,           \* slot -> logical number (current_idx) of the edit that wrote it, -1: none
    last_edit,       \* the logical number the most recent edit produced
    \* history variables Spec keeps
    abandoned,       \* slot -> TRUE once an edit made from an earlier position cut its entry off
    wrote,           \* slot -> the arrays the edit that owns it wrote
    streak,          \* length of the latest run of consecutive edits
    since,           \* TRUE once previous was pressed after that run
    rt,              \* observer of "n edits, n times previous, n times next"
    rewound,         \* TRUE when the last command was an edit issued with current_idx < total_idx
    highest,         \* the highest value total_idx has had
    \* counters of what the user did, which the bounds cap
    nedits,          \* edits issued
    ninputs,         \* pointer inputs (double clicks, drags, deletes)
    \* the trajectory resolver (ProbeModel in needles2/probe_model.py)
    db,              \* the server: what a query for a provenance, or for the insertions, returns
    traj,            \* self.traj: provenance -> dict (a function of the keys present)
    ins,             \* self.ins: dict (a function of the keys present)
    cvol,            \* self.cvol
    initialised,     \* self.initialised
    fetches,         \* history: provenance -> number of queries issued for it
    call,            \* history: the last call and how it ended
    \* the final commit (complete_button_pressed)
    traj_exists,     \* self.loaddata.traj_exists
    presses,         \* history: for every press of Complete, the dialogs shown and the calls made
    \* the cluster labels (launch_phy/upload_merge_results.py)
    cluster,         \* the ClusterLabel table: <<cluster_uuid, user_name>> -> the rest of the row
    cluster_info,    \* cluster_group.tsv with the uuids: rows <<cluster_uuid, group>>
    runs,            \* history: for every run, the table before it and what it inserted and replaced
    \* the pointer and the signals of the lines
    stack,           \* the slots of sigPositionChanged being run, innermost last
    selected_line,   \* self.selected_line
    grabbed          \* history: the reference lines when a marker was last dragged, and the drag

prog == <<idx, idx_prev, current_idx, total_idx, last_idx, diff_idx, lin_fit,
          lines_features, lines_tracks, points, tip_pos, top_pos, track, features,
          track_init>>
obs == <<cmd, took, owner, last_edit>>
ring == <<abandoned, wrote, streak, since, rt, rewound, highest>>
probe == <<db, traj, ins, cvol, initialised, fetches, call>>
labels == <<cluster, cluster_info, runs>>
alyx == <<traj_exists, presses, labels>>
pointer == <<stack, selected_line, grabbed>>
vars == <<prog, obs, ring, nedits, ninputs, probe, alyx, pointer>>

\* no cluster labels are uploaded
dj_unused == cluster = <<>> /\ cluster_info = <<>> /\ runs = <<>>

\* no alignment window is shown
window_unused ==
    /\ idx = 0 /\ idx_prev = 0 /\ current_idx = 0 /\ total_idx = 0
    /\ last_idx = 0 /\ diff_idx = 0 /\ lin_fit = TRUE
    /\ lines_features = <<>> /\ lines_tracks = <<>> /\ points = <<>>
    /\ tip_pos = 0 /\ top_pos = 0 /\ track = <<>> /\ features = <<>> /\ track_init = <<>>
    /\ cmd = "none" /\ took = FALSE /\ owner = <<>> /\ last_edit = 0
    /\ abandoned = <<>> /\ wrote = <<>> /\ streak = 0 /\ since = FALSE
    /\ rt = <<>> /\ rewound = FALSE /\ highest = 0 /\ nedits = 0 /\ ninputs = 0
    /\ traj_exists = FALSE /\ presses = <<>>
    /\ stack = <<>> /\ selected_line = <<"unset", 0, 0>>
    /\ grabbed = <<<<>>, 0, 0, 0>>

\* a process that resolves trajectories shows no alignment window
gui_unused == dj_unused /\ window_unused

\* no ProbeModel is built
model_unused ==
    /\ db = <<>>
    /\ traj = <<>>
    /\ ins = <<>>
    /\ cvol = "None"
    /\ initialised = FALSE
    /\ fetches = <<>>
    /\ call = <<>>

\* a session of the alignment GUI holds no ProbeModel
probe_unused == dj_unused /\ model_unused

cursor == <<idx, current_idx, total_idx, last_idx, diff_idx>>

(***************************************************************************)
(* Program constants (init_variables).                                     *)
(***************************************************************************)
max_idx == 10
probe_tip == 0
probe_top == 3840
extend_feature == 5000
move_step == 50
tip_offset == 1

(***************************************************************************)
(* Bounds of the model.                                                    *)
(***************************************************************************)
MaxTotal == 12
MaxEdits == 2
MaxInputs == 3
MaxFetches == 1
MaxPointer == 5
MaxLines == 2

Slots == 0 .. (max_idx - 1)

Max(a, b) == IF a >= b THEN a ELSE b
Min(a, b) == IF a <= b THEN a ELSE b
Abs(a) == IF a >= 0 THEN a ELSE -a
Last(s) == s[Len(s)]

(***************************************************************************)
(* Array helpers (numpy).                                                  *)
(***************************************************************************)
RECURSIVE Insert(_, _)
Insert(x, s) ==
    IF s = <<>> THEN <<x>>
    ELSE IF x <= Head(s) THEN <<x>> \o s
    ELSE <<Head(s)>> \o Insert(x, Tail(s))

RECURSIVE Sort(_)
Sort(s) == IF s = <<>> THEN <<>> ELSE Insert(Head(s), Sort(Tail(s)))

RECURSIVE Sum(_)
Sum(s) == IF s = <<>> THEN 0 ELSE Head(s) + Sum(Tail(s))

RECURSIVE GCD(_, _)
GCD(a, b) == IF b = 0 THEN Abs(a) ELSE GCD(b, a % Abs(b))

\* a[[0, -1]]
Ends(a) == <<a[1], Last(a)>>
\* a[1:-1]
Interior(a) == SubSeq(a, 2, Len(a) - 1)
\* a + c, element by element
Shift(a, c) == [i \in 1 .. Len(a) |-> a[i] + c]
\* np.delete(a, i, axis=0), i counted from 1
DeleteRow(a, i) == SubSeq(a, 1, i - 1) \o SubSeq(a, i + 1, Len(a))

(***************************************************************************)
(* LoadData.feature2track(trk, idx): piecewise-linear interpolation of the *)
(* slot's (features, track) pairs, continued linearly outside the anchors  *)
(* (no clamping).  The bracketing pair is found as scipy's interp1d does:  *)
(* searchsorted (left) clipped to [1, n - 1].                              *)
(***************************************************************************)
searchsorted(x, v) == Cardinality({i \in 1 .. Len(x) : x[i] < v})

interp1(v, x, y) ==
    LET hi == Max(1, Min(searchsorted(x, v), Len(x) - 1)) + 1
        lo == hi - 1
    IN  y[lo] + ((v - x[lo]) * (y[hi] - y[lo])) \div (x[hi] - x[lo])

feature2track(trk, ftr, trc) == [i \in 1 .. Len(trk) |-> interp1(trk[i], ftr, trc)]

(***************************************************************************)
(* LoadData.feature2track_lin(trk, idx): the least-squares line through    *)
(* the interior anchors, evaluated at trk; 0 with fewer than 5 anchors.    *)
(* With n interior points, u = n*x - sum(x), v = n*y - sum(y):             *)
(*   slope = sum(u*v) / sum(u*u),  f(x) = (sum(y) + slope*(n*x - sum(x)))/n*)
(* The slope is kept as a fraction in lowest terms.                        *)
(***************************************************************************)
polyfit1(v, x, y) ==
    LET n   == Len(x)
        sx  == Sum(x)
        sy  == Sum(y)
        suu == Sum([i \in 1 .. n |-> (n * x[i] - sx) * (n * x[i] - sx)])
        suv == Sum([i \in 1 .. n |-> (n * x[i] - sx) * (n * y[i] - sy)])
        g   == GCD(suv, suu)
        a   == suv \div g
        b   == suu \div g
    IN  (sy * b + a * (n * v - sx)) \div (n * b)

feature2track_lin(trk, ftr, trc) ==
    IF Len(ftr) >= 5
    THEN [i \in 1 .. Len(trk) |-> polyfit1(trk[i], Interior(ftr), Interior(trc))]
    ELSE [i \in 1 .. Len(trk) |-> 0]

(***************************************************************************)
(* The cursor arithmetic that fit, offset and reset share (the same lines  *)
(* are repeated in the three handlers).                                    *)
(***************************************************************************)
\* the branch "if self.current_idx < self.last_idx"
rewind == current_idx < last_idx

\* faulty variants of the cursor arithmetic, which the properties below must
\* tell from the handlers' own: the sign of the slot difference ignored,
edit_diff_idx_unsigned ==
    IF rewind
    THEN max_idx - ((last_idx % max_idx) - (current_idx % max_idx))
    ELSE max_idx - 1

\* or the no-rewind value given in the rewind branch too,
edit_diff_idx_full == max_idx - 1

\* or the slot difference subtracted whatever its sign,
edit_diff_idx_subtracted ==
    IF rewind
    THEN max_idx - Abs((last_idx % max_idx) - (current_idx % max_idx))
    ELSE max_idx - 1

\* the history never cut, or cut without the new entry counted,
edit_total_idx_uncut == total_idx + 1
edit_total_idx_short == IF rewind THEN current_idx ELSE total_idx + 1

\* the floor a whole ring below total_idx, or one entry too low,
undo_floor_ring == Max(0, total_idx - max_idx)
undo_floor_low == Max(0, total_idx - diff_idx - 1)

\* next stopping one entry early, or shy of the oldest entry of a full ring.
redo_guard_early == current_idx < total_idx - 1
redo_guard_narrow == (current_idx < total_idx) /\ (current_idx > total_idx - max_idx + 1)

\* self.diff_idx as the handler leaves it
edit_diff_idx ==
    IF rewind
    THEN LET d == (last_idx % max_idx) - (current_idx % max_idx)
         IN  IF d >= 0 THEN max_idx - d ELSE Abs(d)
    ELSE max_idx - 1

\* self.total_idx as the handler leaves it
edit_total_idx == (IF rewind THEN current_idx ELSE total_idx) + 1

\* the lowest current_idx prev_button_pressed steps down from
undo_floor == Max(0, total_idx - diff_idx)

\* the guard of next_button_pressed
redo_guard == (current_idx < total_idx) /\ (current_idx > total_idx - max_idx)

\* self.last_idx after the first statement of prev_button_pressed
prev_last_idx == IF total_idx > last_idx THEN total_idx ELSE last_idx

\* a faulty variant: the slot index taken before current_idx is advanced
advance_cursor_stale ==
    /\ diff_idx' = edit_diff_idx
    /\ total_idx' = edit_total_idx
    /\ current_idx' = current_idx + 1
    /\ idx' = current_idx % max_idx
    /\ UNCHANGED last_idx

advance_cursor ==
    /\ diff_idx' = edit_diff_idx
    /\ total_idx' = edit_total_idx
    /\ current_idx' = current_idx + 1
    /\ idx' = (current_idx + 1) % max_idx
    /\ UNCHANGED last_idx

(***************************************************************************)
(* scale_hist_data: the arrays a fit writes, from the slot p it reads, the *)
(* reference lines and the linear-fit option lf.                           *)
(***************************************************************************)
\* a faulty variant: the last track marker left out of the fit
line_track_short == [i \in 1 .. Len(lines_tracks) - 1 |-> lines_tracks[i]]

line_track == [i \in 1 .. Len(lines_tracks) |-> lines_tracks[i]]
line_feature == [i \in 1 .. Len(lines_features) |-> lines_features[i][1]]

scale_features0(ftr) == Sort(Ends(ftr) \o line_feature)
scale_track0(ftr, trc) == feature2track(Sort(Ends(trc) \o line_track), ftr, trc)

\* a faulty variant: four anchors are enough
extend_branch_four(f0, lf) == (Len(f0) >= 4) /\ lf

extend_branch(f0, lf) == (Len(f0) >= 5) /\ lf

scale_features(ftr, lf) ==
    LET f0 == scale_features0(ftr)
        n  == Len(f0)
    IN  IF extend_branch(f0, lf)
        THEN [i \in 1 .. n |-> IF i = 1 THEN f0[1] - extend_feature
                               ELSE IF i = n THEN f0[n] + extend_feature
                               ELSE f0[i]]
        ELSE f0

\* a faulty variant: both ends nudged by the first difference
scale_track_first_diff(ftr, trc, lf) ==
    LET f0 == scale_features0(ftr)
        f1 == scale_features(ftr, lf)
        t0 == scale_track0(ftr, trc)
        n  == Len(t0)
    IN  IF extend_branch(f0, lf)
        THEN LET extend_track == feature2track_lin(Ends(f1), f1, t0)
             IN  [i \in 1 .. n |-> IF i = 1 THEN extend_track[1]
                                   ELSE IF i = n THEN extend_track[2]
                                   ELSE t0[i]]
        ELSE LET diff == [i \in 1 .. (n - 1) |->
                             (f0[i + 1] - t0[i + 1]) - (f0[i] - t0[i])]
             IN  [i \in 1 .. n |-> IF i = 1 THEN t0[1] - diff[1]
                                   ELSE IF i = n THEN t0[n] + diff[1]
                                   ELSE t0[i]]

scale_track(ftr, trc, lf) ==
    LET f0 == scale_features0(ftr)
        f1 == scale_features(ftr, lf)
        t0 == scale_track0(ftr, trc)
        n  == Len(t0)
    IN  IF extend_branch(f0, lf)
        THEN LET extend_track == feature2track_lin(Ends(f1), f1, t0)
             IN  [i \in 1 .. n |-> IF i = 1 THEN extend_track[1]
                                   ELSE IF i = n THEN extend_track[2]
                                   ELSE t0[i]]
        ELSE LET diff == [i \in 1 .. (n - 1) |->
                             (f0[i + 1] - t0[i + 1]) - (f0[i] - t0[i])]
             IN  [i \in 1 .. n |-> IF i = 1 THEN t0[1] - diff[1]
                                   ELSE IF i = n THEN t0[n] + diff[n - 1]
                                   ELSE t0[i]]

\* update_lines_points: every track marker and fit point follows its feature marker
updated_lines_tracks == [i \in 1 .. Len(lines_features) |-> lines_features[i][1]]
updated_points ==
    [i \in 1 .. Len(lines_features) |-> <<lines_features[i][1], lines_features[i][1]>>]

\* the bounds plot_histology gives the probe-tip line and the probe-top line
\* for the slot displayed
tip_bounds(trc) == <<trc[1] + tip_offset, Last(trc) - (probe_top + tip_offset)>>
top_bounds(trc) == <<trc[1] + (probe_top + tip_offset), Last(trc) - tip_offset>>
\* InfiniteLine.setPos: the lower bound is applied first, then the upper
clamp(v, b) == Min(Max(v, b[1]), b[2])

\* plot_histology draws the two dotted lines anew for the slot displayed, at
\* probe_tip and probe_top, and setBounds brings each within its bounds
plot_histology(trc) ==
    /\ tip_pos' = clamp(probe_tip, tip_bounds(trc))
    /\ top_pos' = clamp(probe_top, top_bounds(trc))

(***************************************************************************)
(* The session's data (LoadData.get_probe_track): the unscaled track, and  *)
(* the lowest and highest channel depth, chn_coords[:, 1].                 *)
(***************************************************************************)
chn_min == 20
chn_max == 3840
TrackInits == {<<-60, 3890>>}

\* what the pointer can be asked to do: where a double click lands, where a
\* marker or the probe-tip line is dragged to
ClickValues == {1000, 2000, 3000}
DragValues == {1500}
TipValues == {-40, 60}

(***************************************************************************)
(* History variables.                                                      *)
(***************************************************************************)
rt_off == [phase |-> "off", n |-> 0, k |-> 0, snap |-> <<>>]
rt_shown == <<current_idx, idx, track[idx], features[idx]>>

rt_edit == IF rt.phase = "edits" THEN [rt EXCEPT !.n = @ + 1] ELSE rt_off
rt_prev ==
    IF rt.phase = "edits" /\ rt.n >= 1
    THEN [phase |-> "undo", n |-> rt.n, k |-> 1, snap |-> rt_shown]
    ELSE IF rt.phase = "undo" /\ rt.k < rt.n THEN [rt EXCEPT !.k = @ + 1]
    ELSE rt_off
rt_next ==
    IF rt.phase = "undo" /\ rt.k = rt.n THEN [rt EXCEPT !.phase = "redo", !.k = 1]
    ELSE IF rt.phase = "redo" /\ rt.k < rt.n THEN [rt EXCEPT !.k = @ + 1]
    ELSE rt_off

\* command c was issued; t: it passed its guard
observed(c, t) == cmd' = c /\ took' = t /\ UNCHANGED <<owner, last_edit>>

\* edit c wrote slot idx' as logical entry current_idx'
observed_edit(c) ==
    /\ cmd' = c
    /\ took' = TRUE
    /\ owner' = [owner EXCEPT ![idx'] = current_idx']
    /\ last_edit' = current_idx'

\* move c was issued with its guard g
observed_move(c, g) == IF g THEN observed_edit(c) ELSE observed(c, FALSE)

\* an edit cuts off the entries after the position it was made from
ring_edit ==
    /\ abandoned' = [s \in Slots |-> IF s = idx' THEN FALSE
                                     ELSE abandoned[s] \/ (owner[s] > current_idx)]
    /\ wrote' = [wrote EXCEPT ![idx'] = <<track'[idx'], features'[idx']>>]
    /\ streak' = IF since THEN 1 ELSE Min(streak + 1, max_idx + 1)
    /\ since' = FALSE
    /\ rt' = rt_edit
    /\ rewound' = (current_idx < total_idx)
    /\ highest' = Max(highest, total_idx')

ring_prev ==
    /\ since' = TRUE
    /\ rt' = rt_prev
    /\ rewound' = FALSE
    /\ UNCHANGED <<abandoned, wrote, streak, highest>>

ring_next ==
    /\ rt' = rt_next
    /\ rewound' = FALSE
    /\ UNCHANGED <<abandoned, wrote, streak, since, highest>>

Init ==
    /\ idx = 0
    /\ idx_prev = 0
    /\ current_idx = 0
    /\ total_idx = 0
    /\ last_idx = 0
    /\ diff_idx = 0
    /\ lin_fit = TRUE
    /\ lines_features = <<>>
    /\ lines_tracks = <<>>
    /\ points = <<>>
    /\ tip_pos = probe_tip
    /\ top_pos = probe_top
    /\ track_init \in TrackInits
    /\ track = [s \in Slots |-> IF s = 0 THEN track_init ELSE <<>>]
    /\ features = [s \in Slots |-> IF s = 0 THEN track_init ELSE <<>>]
    /\ cmd = "init"
    /\ owner = [s \in Slots |-> IF s = 0 THEN 0 ELSE -1]
    /\ abandoned = [s \in Slots |-> FALSE]
    /\ wrote = [s \in Slots |-> IF s = 0 THEN <<track_init, track_init>> ELSE <<>>]
    /\ streak = 0
    /\ since = FALSE
    /\ rt = [phase |-> "edits", n |-> 0, k |-> 0, snap |-> <<>>]
    /\ took = TRUE
    /\ rewound = FALSE
    /\ highest = 0
    /\ last_edit = 0
    /\ nedits = 0
    /\ ninputs = 0
    /\ probe_unused
    /\ traj_exists = FALSE
    /\ presses = <<>>
    /\ stack = <<>>
    /\ selected_line = <<"unset", 0, 0>>
    /\ grabbed = <<<<>>, 0, 0, 0>>

(***************************************************************************)
(* The commands.                                                           *)
(***************************************************************************)
\* fit_button_pressed with the linear-fit option lf in force
fit(lf) ==
    /\ advance_cursor
    /\ idx_prev' = idx
    /\ track' = [track EXCEPT ![(current_idx + 1) % max_idx] =
                     scale_track(features[idx], track[idx], lf)]
    /\ features' = [features EXCEPT ![(current_idx + 1) % max_idx] =
                        scale_features(features[idx], lf)]
    /\ plot_histology(track'[idx'])
    /\ lines_tracks' = updated_lines_tracks
    /\ points' = updated_points
    /\ UNCHANGED <<lines_features, track_init>>

fit_button_pressed ==
    /\ fit(lin_fit)
    /\ UNCHANGED lin_fit

lin_fit_option_changed(state) ==
    /\ lin_fit' = (state # 0)
    /\ fit(state # 0)

\* a faulty variant: the tip-line position left out
offset_unshifted(trk) ==
    /\ advance_cursor
    /\ idx_prev' = idx
    /\ track' = [trk EXCEPT ![(current_idx + 1) % max_idx] = trk[idx]]
    /\ features' = [features EXCEPT ![(current_idx + 1) % max_idx] = features[idx]]
    /\ plot_histology(track'[idx'])
    /\ lines_tracks' = updated_lines_tracks
    /\ points' = updated_points
    /\ UNCHANGED <<lines_features, track_init, lin_fit>>

\* offset_button_pressed reading the slots as trk (move_up and move_down
\* change the displayed slot before they call it)
offset(trk) ==
    /\ advance_cursor
    /\ idx_prev' = idx
    /\ track' = [trk EXCEPT ![(current_idx + 1) % max_idx] = Shift(trk[idx], tip_pos)]
    /\ features' = [features EXCEPT ![(current_idx + 1) % max_idx] = features[idx]]
    /\ plot_histology(track'[idx'])
    /\ lines_tracks' = updated_lines_tracks
    /\ points' = updated_points
    /\ UNCHANGED <<lines_features, track_init, lin_fit>>

offset_button_pressed == offset(track)

movedown_guard == Last(track[idx]) - move_step >= chn_max
moveup_guard == track[idx][1] + move_step <= chn_min

\* a faulty variant: the shift made without the guard
movedown_button_pressed_unguarded ==
    offset([track EXCEPT ![idx] = Shift(track[idx], -move_step)])

movedown_button_pressed ==
    IF movedown_guard
    THEN offset([track EXCEPT ![idx] = Shift(track[idx], -move_step)])
    ELSE UNCHANGED prog

moveup_button_pressed ==
    IF moveup_guard
    THEN offset([track EXCEPT ![idx] = Shift(track[idx], move_step)])
    ELSE UNCHANGED prog

\* a faulty variant: the new slot filled from the slot displayed
reset_button_pressed_kept ==
    /\ lines_features' = <<>>
    /\ lines_tracks' = <<>>
    /\ points' = <<>>
    /\ advance_cursor
    /\ track' = [track EXCEPT ![(current_idx + 1) % max_idx] = track[idx]]
    /\ features' = [features EXCEPT ![(current_idx + 1) % max_idx] = features[idx]]
    /\ plot_histology(track'[idx'])
    /\ UNCHANGED <<idx_prev, track_init, lin_fit>>

reset_button_pressed ==
    /\ lines_features' = <<>>
    /\ lines_tracks' = <<>>
    /\ points' = <<>>
    /\ advance_cursor
    /\ track' = [track EXCEPT ![(current_idx + 1) % max_idx] = track_init]
    /\ features' = [features EXCEPT ![(current_idx + 1) % max_idx] = track_init]
    /\ plot_histology(track'[idx'])
    /\ UNCHANGED <<idx_prev, track_init, lin_fit>>

prev_button_pressed ==
    /\ last_idx' = prev_last_idx
    /\ IF current_idx > undo_floor
       THEN /\ current_idx' = current_idx - 1
            /\ idx' = (current_idx - 1) % max_idx
            /\ plot_histology(track[(current_idx - 1) % max_idx])
       ELSE UNCHANGED <<current_idx, idx, tip_pos, top_pos>>
    /\ UNCHANGED <<idx_prev, total_idx, diff_idx, lin_fit, lines_features, lines_tracks,
                   points, track, features, track_init>>

next_button_pressed ==
    /\ IF redo_guard
       THEN /\ current_idx' = current_idx + 1
            /\ idx' = (current_idx + 1) % max_idx
            /\ plot_histology(track[(current_idx + 1) % max_idx])
       ELSE UNCHANGED <<current_idx, idx, tip_pos, top_pos>>
    /\ UNCHANGED <<idx_prev, total_idx, last_idx, diff_idx, lin_fit, lines_features,
                   lines_tracks, points, track, features, track_init>>

(***************************************************************************)
(* The pointer.  A double click adds a reference point; dragging a feature *)
(* marker moves the three markers of its reference point; the probe-tip    *)
(* line is dragged within the bounds plot_histology gave it.               *)
(***************************************************************************)
marker_positions ==
    {lines_features[i][1] : i \in 1 .. Len(lines_features)}
        \cup {lines_tracks[i] : i \in 1 .. Len(lines_tracks)}

\* the model's double clicks go up the probe: each above every marker there is
above_markers(p) == \A q \in marker_positions : q < p

unedited ==
    UNCHANGED <<idx, idx_prev, current_idx, total_idx, last_idx, diff_idx, lin_fit,
                track, features, track_init>>

on_mouse_double_clicked(p) ==
    /\ lines_features' = Append(lines_features, <<p, p, p>>)
    /\ lines_tracks' = Append(lines_tracks, p)
    /\ points' = Append(points, <<p, p>>)
    /\ UNCHANGED <<tip_pos, top_pos>>
    /\ unedited

\* marker col of reference point i dragged to v
update_lines_features(i, col, v) ==
    /\ lines_features' = [lines_features EXCEPT ![i] = <<v, v, v>>]
    /\ points' = [points EXCEPT ![i] = <<v, lines_tracks[i]>>]
    /\ UNCHANGED <<lines_tracks, tip_pos, top_pos>>
    /\ unedited

update_lines_track(i, v) ==
    /\ lines_tracks' = [lines_tracks EXCEPT ![i] = v]
    /\ points' = [points EXCEPT ![i] = <<lines_features[i][1], v>>]
    /\ UNCHANGED <<lines_features, tip_pos, top_pos>>
    /\ unedited

\* a faulty variant: the fit point removed is the last, not the one at the index
delete_line_button_pressed_last_point(i) ==
    /\ lines_features' = DeleteRow(lines_features, i)
    /\ lines_tracks' = DeleteRow(lines_tracks, i)
    /\ points' = DeleteRow(points, Len(points))
    /\ UNCHANGED <<tip_pos, top_pos>>
    /\ unedited

\* the pointer hovers over a marker of reference point i and Del is pressed
delete_line_button_pressed(i) ==
    /\ lines_features' = DeleteRow(lines_features, i)
    /\ lines_tracks' = DeleteRow(lines_tracks, i)
    /\ points' = DeleteRow(points, i)
    /\ UNCHANGED <<tip_pos, top_pos>>
    /\ unedited

\* the probe-tip line dragged to v, and the probe-top line set after it
tip_line_moved(v) ==
    /\ tip_pos' = clamp(v, tip_bounds(track[idx]))
    /\ top_pos' = clamp(clamp(v, tip_bounds(track[idx])) + probe_top, top_bounds(track[idx]))
    /\ UNCHANGED <<lines_features, lines_tracks, points>>
    /\ unedited

(***************************************************************************)
(* Spec, the history: the commands that move the cursor, in a session      *)
(* without reference lines, up to MaxTotal entries.                        *)
(***************************************************************************)
uncounted == UNCHANGED <<nedits, ninputs, probe, alyx, pointer>>

Next ==
    \/ (edit_total_idx <= MaxTotal /\ fit_button_pressed
          /\ observed_edit("fit") /\ ring_edit /\ uncounted)
    \/ (edit_total_idx <= MaxTotal /\ offset_button_pressed
          /\ observed_edit("offset") /\ ring_edit /\ uncounted)
    \/ (edit_total_idx <= MaxTotal /\ reset_button_pressed
          /\ observed_edit("reset") /\ ring_edit /\ uncounted)
    \/ (prev_button_pressed /\ observed("prev", current_idx > undo_floor)
          /\ ring_prev /\ uncounted)
    \/ (next_button_pressed /\ observed("next", redo_guard) /\ ring_next /\ uncounted)

Spec == Init /\ [][Next]_vars

(***************************************************************************)
(* SpecMove, the moves: MaxEdits edits, move_up and move_down among them,  *)
(* with previous and next, in a fresh session or in one continued from     *)
(* Filled, the state nine resets and a press of next leave (Spec reaches   *)
(* it): the next edit there wraps the ring.                                *)
(***************************************************************************)
Filled ==
    /\ idx = max_idx - 1
    /\ idx_prev = 0
    /\ current_idx = max_idx - 1
    /\ total_idx = max_idx - 1
    /\ last_idx = 0
    /\ diff_idx = max_idx - 1
    /\ lin_fit = TRUE
    /\ lines_features = <<>>
    /\ lines_tracks = <<>>
    /\ points = <<>>
    /\ tip_pos = probe_tip
    /\ top_pos = probe_top
    /\ track_init \in TrackInits
    /\ track = [s \in Slots |-> track_init]
    /\ features = [s \in Slots |-> track_init]
    /\ cmd = "next"
    /\ owner = [s \in Slots |-> s]
    /\ abandoned = [s \in Slots |-> FALSE]
    /\ wrote = [s \in Slots |-> <<track_init, track_init>>]
    /\ streak = max_idx - 1
    /\ since = FALSE
    /\ rt = rt_off
    /\ took = FALSE
    /\ rewound = FALSE
    /\ highest = max_idx - 1
    /\ last_edit = max_idx - 1
    /\ nedits = 0
    /\ ninputs = 0
    /\ probe_unused
    /\ traj_exists = FALSE
    /\ presses = <<>>
    /\ stack = <<>>
    /\ selected_line = <<"unset", 0, 0>>
    /\ grabbed = <<<<>>, 0, 0, 0>>

InitMove == Init \/ Filled

edit_counted ==
    nedits < MaxEdits /\ nedits' = nedits + 1 /\ UNCHANGED <<ninputs, probe, alyx, pointer>>
input_counted ==
    ninputs < MaxInputs /\ ninputs' = ninputs + 1 /\ UNCHANGED <<nedits, probe, alyx, pointer>>

NextMove ==
    \/ (edit_counted /\ fit_button_pressed /\ observed_edit("fit") /\ UNCHANGED ring)
    \/ (edit_counted /\ offset_button_pressed /\ observed_edit("offset") /\ UNCHANGED ring)
    \/ (edit_counted /\ reset_button_pressed /\ observed_edit("reset") /\ UNCHANGED ring)
    \/ (edit_counted /\ movedown_button_pressed
          /\ observed_move("move_down", movedown_guard) /\ UNCHANGED ring)
    \/ (edit_counted /\ moveup_button_pressed
          /\ observed_move("move_up", moveup_guard) /\ UNCHANGED ring)
    \/ (prev_button_pressed /\ observed("prev", current_idx > undo_floor)
          /\ UNCHANGED ring /\ uncounted)
    \/ (next_button_pressed /\ observed("next", redo_guard) /\ UNCHANGED ring /\ uncounted)

SpecMove == InitMove /\ [][NextMove]_vars

(***************************************************************************)
(* SpecAlign, the alignment: every command and the pointer, for MaxEdits   *)
(* edits and MaxInputs pointer inputs in a fresh session.                  *)
(***************************************************************************)
\* the check box reports a change: unchecked (0) when lin_fit, checked (2) when not
toggles(state) == (state # 0) # lin_fit

pointed == observed("pointer", TRUE) /\ UNCHANGED ring
deleted == observed("delete", TRUE) /\ UNCHANGED ring

NextAlign ==
    \/ (edit_counted /\ fit_button_pressed /\ observed_edit("fit") /\ UNCHANGED ring)
    \/ (edit_counted /\ (\E state \in {0, 2} : toggles(state) /\ lin_fit_option_changed(state))
          /\ observed_edit("lin_fit") /\ UNCHANGED ring)
    \/ (edit_counted /\ offset_button_pressed /\ observed_edit("offset") /\ UNCHANGED ring)
    \/ (edit_counted /\ reset_button_pressed /\ observed_edit("reset") /\ UNCHANGED ring)
    \/ (edit_counted /\ movedown_button_pressed
          /\ observed_move("move_down", movedown_guard) /\ UNCHANGED ring)
    \/ (edit_counted /\ moveup_button_pressed
          /\ observed_move("move_up", moveup_guard) /\ UNCHANGED ring)
    \/ (input_counted /\ prev_button_pressed
          /\ observed("prev", current_idx > undo_floor) /\ UNCHANGED ring)
    \/ (input_counted /\ next_button_pressed
          /\ observed("next", redo_guard) /\ UNCHANGED ring)
    \/ (input_counted /\ pointed
          /\ \E p \in ClickValues : above_markers(p) /\ on_mouse_double_clicked(p))
    \/ (input_counted /\ pointed
          /\ \E i \in 1 .. Len(lines_features), col \in 1 .. 3 :
                \E v \in DragValues \ marker_positions : update_lines_features(i, col, v))
    \/ (input_counted /\ pointed
          /\ \E i \in 1 .. Len(lines_tracks) :
                \E v \in DragValues \ marker_positions : update_lines_track(i, v))
    \/ (input_counted /\ deleted
          /\ \E i \in 1 .. Len(lines_features) : delete_line_button_pressed(i))
    \/ (input_counted /\ pointed /\ \E v \in TipValues : tip_line_moved(v))

SpecAlign == Init /\ [][NextAlign]_vars

(***************************************************************************)
(* SpecLines, the reference lines: fits, with the linear-fit option on or  *)
(* off, between double clicks, drags of a feature marker to just above the *)
(* lowest click, and deletions, for MaxEdits fits and MaxPointer pointer   *)
(* inputs in a fresh session with up to MaxLines reference lines at a time.*)
(***************************************************************************)
LineClicks == {1000, 3000}
NearValues == {1010}

pointer_counted ==
    ninputs < MaxPointer /\ ninputs' = ninputs + 1 /\ UNCHANGED <<nedits, probe, alyx, pointer>>

NextLines ==
    \/ (edit_counted /\ fit_button_pressed /\ observed_edit("fit") /\ UNCHANGED ring)
    \/ (edit_counted /\ (\E state \in {0, 2} : toggles(state) /\ lin_fit_option_changed(state))
          /\ observed_edit("lin_fit") /\ UNCHANGED ring)
    \/ (pointer_counted /\ pointed /\ Len(lines_features) < MaxLines
          /\ \E p \in LineClicks : above_markers(p) /\ on_mouse_double_clicked(p))
    \/ (pointer_counted /\ pointed
          /\ \E i \in 1 .. Len(lines_features), col \in 1 .. 3 :
                \E v \in NearValues \ marker_positions : update_lines_features(i, col, v))
    \/ (pointer_counted /\ pointed
          /\ \E i \in 1 .. Len(lines_features) : delete_line_button_pressed(i))

SpecLines == Init /\ [][NextLines]_vars

(***************************************************************************)
(* SpecExtend, the extension of the ends: fits, with the linear-fit option *)
(* on or off, between double clicks inside and above the feature range of  *)
(* the slot displayed, for MaxEdits fits and MaxPointer double clicks in a *)
(* fresh session.  A reference line above the range is one that a fit will *)
(* extend past: it is placed as the third line or later with the option    *)
(* on, and the option is left alone while a line is outside the range.     *)
(***************************************************************************)
ExtendClicks == {1000, 2000, 3000, 3900}

within_features(v) == features[idx][1] <= v /\ v <= Last(features[idx])

extended_past(p) == within_features(p) \/ (lin_fit /\ Len(lines_features) + 3 >= 5)

NextExtend ==
    \/ (edit_counted /\ fit_button_pressed /\ observed_edit("fit") /\ UNCHANGED ring)
    \/ (edit_counted /\ (\A i \in 1 .. Len(lines_features) : within_features(lines_features[i][1]))
          /\ (\E state \in {0, 2} : toggles(state) /\ lin_fit_option_changed(state))
          /\ observed_edit("lin_fit") /\ UNCHANGED ring)
    \/ (pointer_counted /\ pointed
          /\ \E p \in ExtendClicks :
                above_markers(p) /\ extended_past(p) /\ on_mouse_double_clicked(p))

SpecExtend == Init /\ [][NextExtend]_vars

(***************************************************************************)
(* SpecFail, an edit that raises: the session of SpecAlign, in which a     *)
(* fit, an offset or a reset may stop at an exception of LoadData, either  *)
(* in the coordinate transform (feature2track, before any array of the new *)
(* slot is assigned) or in the region scaling (scale_histology_regions,    *)
(* after both arrays are assigned).  No handler catches it: what the       *)
(* handler assigned before the call stays assigned, and what follows the   *)
(* call (the plots, update_lines_points) is not run.  The model stops      *)
(* there.                                                                  *)
(***************************************************************************)
Stages == {"transform", "scaling"}
FailedCmds == {"fit_raised", "offset_raised", "reset_raised"}

fit_button_pressed_raises(stage) ==
    /\ advance_cursor
    /\ idx_prev' = idx
    /\ IF stage = "transform"
       THEN UNCHANGED <<track, features>>
       ELSE /\ track' = [track EXCEPT ![(current_idx + 1) % max_idx] =
                            scale_track(features[idx], track[idx], lin_fit)]
            /\ features' = [features EXCEPT ![(current_idx + 1) % max_idx] =
                               scale_features(features[idx], lin_fit)]
    /\ UNCHANGED <<tip_pos, top_pos, lines_features, lines_tracks, points, track_init,
                   lin_fit>>

offset_button_pressed_raises ==
    /\ advance_cursor
    /\ idx_prev' = idx
    /\ track' = [track EXCEPT ![(current_idx + 1) % max_idx] = Shift(track[idx], tip_pos)]
    /\ features' = [features EXCEPT ![(current_idx + 1) % max_idx] = features[idx]]
    /\ UNCHANGED <<tip_pos, top_pos, lines_features, lines_tracks, points, track_init,
                   lin_fit>>

reset_button_pressed_raises ==
    /\ lines_features' = <<>>
    /\ lines_tracks' = <<>>
    /\ points' = <<>>
    /\ advance_cursor
    /\ track' = [track EXCEPT ![(current_idx + 1) % max_idx] = track_init]
    /\ features' = [features EXCEPT ![(current_idx + 1) % max_idx] = track_init]
    /\ UNCHANGED <<idx_prev, tip_pos, top_pos, track_init, lin_fit>>

running == cmd \notin FailedCmds

NextFail ==
    \/ (running /\ NextAlign)
    \/ (running /\ edit_counted /\ (\E stage \in Stages : fit_button_pressed_raises(stage))
          /\ observed("fit_raised", FALSE) /\ UNCHANGED ring)
    \/ (running /\ edit_counted /\ offset_button_pressed_raises
          /\ observed("offset_raised", FALSE) /\ UNCHANGED ring)
    \/ (running /\ edit_counted /\ reset_button_pressed_raises
          /\ observed("reset_raised", FALSE) /\ UNCHANGED ring)

SpecFail == Init /\ [][NextFail]_vars

(***************************************************************************)
(* SpecComplete, the final commit: up to MaxPresses presses of Complete in *)
(* a session.  The two message boxes are answered Yes or No; LoadData's    *)
(* upload_channels and get_trajectory are calls to the remote store, and   *)
(* what get_trajectory finds there (traj_exists) is the store's to say.    *)
(***************************************************************************)
MaxPresses == 4
Answers == {"Yes", "No"}

\* what a press shows and calls, in order, each with its answer or argument
question(answer) == <<"question", answer>>
warning(answer) == <<"warning", answer>>
upload_channels(overwrite) == <<"upload_channels", overwrite>>
get_trajectory == <<"get_trajectory", "">>
information(text) == <<"information", text>>

\* a faulty variant: the upload made whatever the answer to the warning
complete_calls_unwarned(upload, overwrite) ==
    IF upload = "Yes"
    THEN IF traj_exists
         THEN <<question(upload), warning(overwrite), upload_channels("overwrite=True"),
                get_trajectory, information("uploaded")>>
         ELSE <<question(upload), upload_channels(""), get_trajectory,
                information("uploaded")>>
    ELSE <<question(upload), information("not uploaded")>>

complete_calls(upload, overwrite) ==
    IF upload = "Yes"
    THEN IF traj_exists
         THEN IF overwrite = "Yes"
              THEN <<question(upload), warning(overwrite),
                     upload_channels("overwrite=True"), get_trajectory,
                     information("uploaded")>>
              ELSE <<question(upload), warning(overwrite), information("not uploaded")>>
         ELSE <<question(upload), upload_channels(""), get_trajectory,
                information("uploaded")>>
    ELSE <<question(upload), information("not uploaded")>>

\* found: what get_trajectory finds on the store
complete_button_pressed(upload, overwrite, found) ==
    LET calls == complete_calls(upload, overwrite)
    IN  /\ presses' = Append(presses, calls)
        /\ traj_exists' = IF \E i \in 1 .. Len(calls) : calls[i] = get_trajectory
                          THEN found ELSE traj_exists

NextComplete ==
    /\ Len(presses) < MaxPresses
    /\ \E upload \in Answers, overwrite \in Answers, found \in BOOLEAN :
          complete_button_pressed(upload, overwrite, found)
    /\ UNCHANGED <<prog, obs, ring, nedits, ninputs, probe, pointer, labels>>

SpecComplete == Init /\ [][NextComplete]_vars

(***************************************************************************)
(* SpecDrag, the two dotted lines: the probe-tip line or the probe-top     *)
(* line is dragged, and each slot of sigPositionChanged is a step.         *)
(* InfiniteLine.setPos brings the position within the line's bounds and    *)
(* emits sigPositionChanged only when the position has changed; the slot   *)
(* connected to it runs at once, inside the setPos that emitted it, so the *)
(* slots being run form a stack.  Offsets and moves, made when no slot is  *)
(* running, change the track and with it the bounds.  MaxPointer drags and *)
(* MaxEdits edits in a fresh session.                                      *)
(***************************************************************************)
TipDrags == {-200, -40, 30, 60}
TopDrags == {3700, 3800, 3870, 4000}

slot_of(name) == <<name, 0, 0, 0>>
no_slot_running == stack = <<>>

\* self.tip_pos.setPos(v): the stack with the slot it starts, if any
tip_pos_setPos(v) ==
    LET p == clamp(v, tip_bounds(track[idx]))
    IN  /\ tip_pos' = p
        /\ stack' = IF p # tip_pos THEN Append(stack, slot_of("tip_line_moved"))
                    ELSE stack
        /\ UNCHANGED top_pos

\* self.top_pos.setPos(v)
top_pos_setPos(v) ==
    LET p == clamp(v, top_bounds(track[idx]))
    IN  /\ top_pos' = p
        /\ stack' = IF p # top_pos THEN Append(stack, slot_of("top_line_moved"))
                    ELSE stack
        /\ UNCHANGED tip_pos

lines_kept ==
    UNCHANGED <<lines_features, lines_tracks, points, selected_line, grabbed>> /\ unedited

\* the pointer drags a dotted line to v
tip_pos_dragged(v) == no_slot_running /\ tip_pos_setPos(v) /\ lines_kept
top_pos_dragged(v) == no_slot_running /\ top_pos_setPos(v) /\ lines_kept

\* the slot on top of the stack is run: it is done once its setPos returns,
\* and the slot that setPos started, if any, takes its place
slot_running(name) == stack # <<>> /\ Last(stack) = slot_of(name)

\* a faulty variant: the probe-tip line set probe_top below the tip
top_line_moved_tip == top_pos - probe_top - probe_top

top_line_moved_value == top_pos - probe_top

tip_line_moved_slot ==
    /\ slot_running("tip_line_moved")
    /\ LET p == clamp(tip_pos + probe_top, top_bounds(track[idx]))
       IN  /\ top_pos' = p
           /\ stack' = IF p # top_pos
                       THEN Append(SubSeq(stack, 1, Len(stack) - 1), slot_of("top_line_moved"))
                       ELSE SubSeq(stack, 1, Len(stack) - 1)
           /\ UNCHANGED tip_pos
    /\ lines_kept

top_line_moved ==
    /\ slot_running("top_line_moved")
    /\ LET p == clamp(top_line_moved_value, tip_bounds(track[idx]))
       IN  /\ tip_pos' = p
           /\ stack' = IF p # tip_pos
                       THEN Append(SubSeq(stack, 1, Len(stack) - 1), slot_of("tip_line_moved"))
                       ELSE SubSeq(stack, 1, Len(stack) - 1)
           /\ UNCHANGED top_pos
    /\ lines_kept

signalled(c) ==
    /\ observed(c, TRUE)
    /\ UNCHANGED <<ring, nedits, ninputs, probe, alyx>>

dragged ==
    /\ ninputs < MaxPointer
    /\ ninputs' = ninputs + 1
    /\ observed("pointer", TRUE)
    /\ UNCHANGED <<ring, nedits, probe, alyx>>

slots_run ==
    \/ (tip_line_moved_slot /\ signalled("tip_line_moved"))
    \/ (top_line_moved /\ signalled("top_line_moved"))

NextDrag ==
    \/ (dragged /\ \E v \in TipDrags : tip_pos_dragged(v))
    \/ (dragged /\ \E v \in TopDrags : top_pos_dragged(v))
    \/ slots_run
    \/ (no_slot_running /\ edit_counted /\ offset_button_pressed
          /\ observed_edit("offset") /\ UNCHANGED ring)
    \/ (no_slot_running /\ edit_counted /\ movedown_button_pressed
          /\ observed_move("move_down", movedown_guard) /\ UNCHANGED ring)
    \/ (no_slot_running /\ edit_counted /\ moveup_button_pressed
          /\ observed_move("move_up", moveup_guard) /\ UNCHANGED ring)

\* a slot that is called runs
SpecDrag == Init /\ [][NextDrag]_vars /\ WF_vars(slots_run)

(***************************************************************************)
(* SpecCascade, the three feature markers of a reference point: a marker   *)
(* is dragged and each statement of its slot update_lines_features is a    *)
(* step.  A reference line has no bounds; setPos on a marker emits         *)
(* sigPositionChanged only when the position has changed, and the slot it  *)
(* starts runs inside that setPos, on top of the slot that called it.  A   *)
(* frame <<"update_lines_features", i, col, pc>> is the slot called for    *)
(* marker col of reference point i, pc of its two setPos calls done.       *)
(* Double clicks and drags of track markers are made when no slot is       *)
(* running.  MaxPointer pointer inputs in a fresh session with up to       *)
(* MaxLines reference lines.                                               *)
(***************************************************************************)
CascadeClicks == {1000, 3000}
CascadeDrags == {1500, 2500}

\* a faulty variant: the first two figures whatever the marker moved
fig_idx_first_two(col) == <<1, 2>>

\* np.setdiff1d(np.arange(0, 3), col): the other two figures, ascending
fig_idx(col) == SelectSeq(<<1, 2, 3>>, LAMBDA c : c # col)

frame_of(i, col, pc) == <<"update_lines_features", i, col, pc>>

cascade_kept ==
    /\ UNCHANGED <<tip_pos, top_pos, lines_tracks, selected_line>>
    /\ unedited

\* the pointer drags marker col of reference point i to v
lines_features_dragged(i, col, v) ==
    /\ no_slot_running
    /\ v # lines_features[i][col]
    /\ lines_features' = [lines_features EXCEPT ![i][col] = v]
    /\ stack' = <<frame_of(i, col, 0)>>
    /\ grabbed' = <<lines_features, i, col, v>>
    /\ UNCHANGED points
    /\ cascade_kept

\* one statement of the slot on top of the stack
update_lines_features_slot ==
    /\ stack # <<>>
    /\ Last(stack)[1] = "update_lines_features"
    /\ LET line_idx == Last(stack)[2]
           col == Last(stack)[3]
           pc == Last(stack)[4]
           below == SubSeq(stack, 1, Len(stack) - 1)
           value == lines_features[line_idx][col]
       IN  IF pc < 2
           THEN LET fig == fig_idx(col)[pc + 1]
                IN  /\ lines_features' = [lines_features EXCEPT ![line_idx][fig] = value]
                    /\ stack' = IF lines_features[line_idx][fig] # value
                                THEN below \o <<frame_of(line_idx, col, pc + 1),
                                                frame_of(line_idx, fig, 0)>>
                                ELSE Append(below, frame_of(line_idx, col, pc + 1))
                    /\ UNCHANGED points
           ELSE /\ points' = [points EXCEPT ![line_idx] =
                                 <<lines_features[line_idx][1], lines_tracks[line_idx]>>]
                /\ stack' = below
                /\ UNCHANGED lines_features
    /\ UNCHANGED grabbed
    /\ cascade_kept

clicked ==
    /\ no_slot_running
    /\ ninputs < MaxPointer
    /\ ninputs' = ninputs + 1
    /\ observed("pointer", TRUE)
    /\ UNCHANGED <<ring, nedits, probe, alyx, pointer>>

markers_run == update_lines_features_slot /\ signalled("update_lines_features")

NextCascade ==
    \/ (clicked /\ Len(lines_features) < MaxLines
          /\ \E p \in CascadeClicks : above_markers(p) /\ on_mouse_double_clicked(p))
    \/ (dragged /\ \E i \in 1 .. Len(lines_features), col \in 1 .. 3 :
                      \E v \in CascadeDrags : lines_features_dragged(i, col, v))
    \/ (clicked /\ \E i \in 1 .. Len(lines_tracks) :
                      \E v \in CascadeDrags : update_lines_track(i, v))
    \/ markers_run

\* a slot that is called runs
SpecCascade == Init /\ [][NextCascade]_vars /\ WF_vars(markers_run)

(***************************************************************************)
(* SpecDelete, the Del key: the pointer hovers over the plots, reference   *)
(* points are added by double clicks and Del is pressed.  selected_line is *)
(* an attribute that on_mouse_hover creates: <<"unset", 0, 0>> until then, *)
(* <<"empty", 0, 0>> for the empty list, and otherwise the InfiniteLine    *)
(* hovered over: marker col of reference point i as <<"feature", i, col>>, *)
(* its track marker as <<"track", i, 0>>, a dotted line as <<"tip", 0, 0>> *)
(* or <<"top", 0, 0>>.  A line that Del has removed is still the selected  *)
(* line and is in neither array: <<"removed", 0, 0>>.  A handler that      *)
(* raises is recorded in cmd.  MaxPointer pointer inputs in a fresh        *)
(* session with up to MaxLines reference lines.                            *)
(***************************************************************************)
DeleteClicks == {1000, 3000}
DeleteCmds == {"delete", "delete_raised"}

\* what the pointer can be over: nothing, an item that is no line, a line
items_hovered ==
    {<<"none", 0, 0>>, <<"image", 0, 0>>, <<"tip", 0, 0>>, <<"top", 0, 0>>}
        \cup {<<"feature", i, col>> : i \in 1 .. Len(lines_features), col \in 1 .. 3}
        \cup {<<"track", i, 0>> : i \in 1 .. Len(lines_tracks)}

on_mouse_hover(items) ==
    /\ selected_line' = IF items[1] = "none" THEN selected_line
                        ELSE IF items[1] = "image" THEN <<"empty", 0, 0>>
                        ELSE items
    /\ UNCHANGED <<lines_features, lines_tracks, points, tip_pos, top_pos>>
    /\ unedited

\* np.where finds the selected line in lines_features or in lines_tracks
selected_in_arrays == selected_line[1] \in {"feature", "track"}

\* the selected line is an object and not the empty list
selected_is_line == selected_line[1] \notin {"unset", "empty"}

\* the handler as a whole; what it raises: AttributeError when selected_line
\* was never set, IndexError at line_idx[0] when the line is in neither array
delete_line_raises ==
    selected_line[1] = "unset" \/ (selected_is_line /\ ~selected_in_arrays)

delete_line_button_pressed_selected ==
    IF selected_is_line /\ selected_in_arrays
    THEN /\ delete_line_button_pressed(selected_line[2])
         /\ selected_line' = <<"removed", 0, 0>>
         /\ observed("delete", TRUE)
    ELSE /\ UNCHANGED <<lines_features, lines_tracks, points, tip_pos, top_pos,
                        selected_line>>
         /\ unedited
         /\ observed(IF delete_line_raises THEN "delete_raised" ELSE "delete", FALSE)

keyed ==
    /\ ninputs < MaxPointer
    /\ ninputs' = ninputs + 1
    /\ UNCHANGED <<ring, nedits, probe, alyx, stack, grabbed>>

NextDelete ==
    \/ (keyed /\ observed("pointer", TRUE) /\ UNCHANGED selected_line
          /\ Len(lines_features) < MaxLines
          /\ \E p \in DeleteClicks : above_markers(p) /\ on_mouse_double_clicked(p))
    \/ (keyed /\ observed("hover", TRUE) /\ \E items \in items_hovered : on_mouse_hover(items))
    \/ (keyed /\ delete_line_button_pressed_selected)

SpecDelete == Init /\ [][NextDelete]_vars

(***************************************************************************)
(* The trajectory resolver (ProbeModel in needles2/probe_model.py).  A     *)
(* dict is a function of the keys it holds, so 'k' in d.keys() is          *)
(* k \in DOMAIN d; arrays are sequences, numpy's indices 0 .. n-1 are the  *)
(* sequence's 1 .. n.  The 'x' and 'y' arrays of a provenance are built    *)
(* and selected exactly as its 'ins' array and are left out.               *)
(***************************************************************************)
Provenances == {"Planned", "Micro-manipulator", "Histology track",
                "Ephys aligned histology track", "Resolved"}

PROV_2_VAL ==
    [p \in Provenances |->
        CASE p = "Resolved" -> 90
          [] p = "Ephys aligned histology track" -> 70
          [] p = "Histology track" -> 50
          [] p = "Micro-manipulator" -> 30
          [] p = "Planned" -> 10]

\* the items of VAL_2_PROV in the dict's order, that of PROV_2_VAL
VAL_2_PROV_items ==
    <<"Resolved", "Ephys aligned histology track", "Histology track",
      "Micro-manipulator", "Planned">>

VAL_2_PROV_keys == {PROV_2_VAL[p] : p \in Provenances}
VAL_2_PROV(v) == CHOOSE p \in Provenances : PROV_2_VAL[p] = v

put(d, k, v) == [x \in (DOMAIN d) \cup {k} |-> IF x = k THEN v ELSE d[x]]
Elems(a) == {a[i] : i \in 1 .. Len(a)}
Take(a, ix) == [j \in 1 .. Len(ix) |-> a[ix[j]]]
arange(n) == [i \in 1 .. n |-> i]

\* a faulty variant: the membership mask not inverted
is_member(a, b) == SelectSeq(arange(Len(a)), LAMBDA i : a[i] \in Elems(b))

\* np.where(np.invert(ismember(a, b)[0]))[0]: the indices of a, ascending,
\* whose element is not in b
not_member(a, b) == SelectSeq(arange(Len(a)), LAMBDA i : a[i] \notin Elems(b))

\* the course of a call: the dicts so far, the queries issued so far, and
\* "ok" or the exception that ended it
ok(st) == st.rc = "ok"
raised(st, e) == [st EXCEPT !.rc = e]

\* the django filters of initialise
no_django == ""
x_not_null == "x__isnull,False"
alignment_resolved == "probe_insertion__json__extended_qc__alignment_resolved,True"

\* one.alyx.rest('trajectories', 'list', provenance, django): the records of
\* the provenance in the server's order, those of resolved insertions only
\* under the alignment_resolved filter; every record carries coordinates
rest(provenance, django) ==
    IF django = alignment_resolved
    THEN SelectSeq(db[provenance], LAMBDA r : r.alignment_resolved)
    ELSE db[provenance]

\* get_traj_for_provenance(provenance, django, prov_dict): an empty answer
\* is stored under 'traj' and then fails to unzip
get_traj_for_provenance(st, provenance, django, prov_dict) ==
    IF ~ok(st) THEN st
    ELSE LET recs == rest(provenance, django)
             d1   == put(st.t[prov_dict], "traj", recs)
             f1   == [st.f EXCEPT ![prov_dict] = @ + 1]
         IN  IF recs = <<>>
             THEN [t |-> [st.t EXCEPT ![prov_dict] = d1], f |-> f1, rc |-> "ValueError"]
             ELSE [t |-> [st.t EXCEPT ![prov_dict] =
                            put(d1, "ins", [i \in 1 .. Len(recs) |-> recs[i].probe_insertion])],
                   f |-> f1, rc |-> "ok"]

\* a faulty variant: the records asked for again until the tier is marked
traj_until_marked(st, p) ==
    IF ok(st) /\ "is_best" \notin DOMAIN st.t[p]
    THEN get_traj_for_provenance(st, p, no_django, p)
    ELSE st

\* if not 'traj' in self.traj[p].keys(): self.get_traj_for_provenance(p)
traj_on_demand(st, p) ==
    IF ok(st) /\ "traj" \notin DOMAIN st.t[p]
    THEN get_traj_for_provenance(st, p, no_django, p)
    ELSE st

\* self.traj[p]['is_best'] = the indices of from_ix whose insertion is not in q's
mark_best(st, p, q, from_ix) ==
    IF ~ok(st) THEN st
    ELSE IF "ins" \notin DOMAIN st.t[p] \/ "ins" \notin DOMAIN st.t[q]
    THEN raised(st, "KeyError")
    ELSE [st EXCEPT !.t[p] =
             put(@, "is_best",
                 Take(from_ix, not_member(Take(st.t[p]["ins"], from_ix), st.t[q]["ins"])))]

\* a faulty variant: Planned treated as any other provenance
find_traj_is_best_one_level(st, p) ==
    IF ~ok(st) THEN st
    ELSE IF PROV_2_VAL[p] + 20 \notin VAL_2_PROV_keys THEN raised(st, "KeyError")
    ELSE LET q  == VAL_2_PROV(PROV_2_VAL[p] + 20)
             s1 == traj_on_demand(traj_on_demand(st, p), q)
         IN  IF ok(s1) /\ "ins" \in DOMAIN s1.t[p]
             THEN mark_best(s1, p, q, arange(Len(s1.t[p]["ins"])))
             ELSE IF ok(s1) THEN raised(s1, "KeyError") ELSE s1

find_traj_is_best(st, p) ==
    IF ~ok(st) THEN st
    ELSE IF PROV_2_VAL[p] + 20 \notin VAL_2_PROV_keys THEN raised(st, "KeyError")
    ELSE LET q  == VAL_2_PROV(PROV_2_VAL[p] + 20)
             s1 == traj_on_demand(traj_on_demand(st, p), q)
             s2 == IF ok(s1) /\ "ins" \in DOMAIN s1.t[p]
                   THEN mark_best(s1, p, q, arange(Len(s1.t[p]["ins"])))
                   ELSE IF ok(s1) THEN raised(s1, "KeyError") ELSE s1
         IN  IF p = "Planned"
             THEN LET q2 == VAL_2_PROV(PROV_2_VAL[p] + 40)
                      s3 == traj_on_demand(s2, q2)
                  IN  IF ok(s3) THEN mark_best(s3, p, q2, s3.t[p]["is_best"]) ELSE s3
             ELSE s2

\* a faulty variant: every row taken
all_rows(st, p, k) == st.t[p][k]

\* the rows of self.traj[p][k] that is_best selects
best_rows(st, p, k) == Take(st.t[p][k], st.t[p]["is_best"])

\* the body of the loop of compute_best_for_provenance for the provenances
\* provs[iP ..]
RECURSIVE best_from(_, _, _)
best_from(st, provs, iP) ==
    IF ~ok(st) \/ iP > Len(provs) THEN st
    ELSE LET prov == provs[iP]
             s1 == IF "is_best" \notin DOMAIN st.t[prov]
                   THEN find_traj_is_best(st, prov) ELSE st
             b  == s1.t["Best"]
             s2 == IF ~ok(s1) THEN s1
                   ELSE IF iP = 1
                   THEN [s1 EXCEPT !.t["Best"] =
                           put(put(b, "traj", best_rows(s1, prov, "traj")),
                               "ins", best_rows(s1, prov, "ins"))]
                   ELSE [s1 EXCEPT !.t["Best"] =
                           put(put(b, "traj", b["traj"] \o best_rows(s1, prov, "traj")),
                               "ins", b["ins"] \o best_rows(s1, prov, "ins"))]
         IN  best_from(s2, provs, iP + 1)

\* a faulty variant: the provenances taken from the lowest up
prov_to_include_ascending(p) ==
    LET down == SelectSeq(VAL_2_PROV_items, LAMBDA v : PROV_2_VAL[v] >= PROV_2_VAL[p])
    IN  [i \in 1 .. Len(down) |-> down[Len(down) + 1 - i]]

prov_to_include(p) ==
    SelectSeq(VAL_2_PROV_items, LAMBDA v : PROV_2_VAL[v] >= PROV_2_VAL[p])

compute_best_for_provenance(st, p) == best_from(st, prov_to_include(p), 1)

\* initialise up to get_insertions_with_xyz: the three queries, the two
\* markings, and every Resolved record marked best
initialise(st) ==
    LET s1 == get_traj_for_provenance(
                  get_traj_for_provenance(
                      get_traj_for_provenance(st, "Histology track", x_not_null,
                                              "Histology track"),
                      "Ephys aligned histology track", no_django,
                      "Ephys aligned histology track"),
                  "Ephys aligned histology track", alignment_resolved, "Resolved")
        s2 == find_traj_is_best(find_traj_is_best(s1, "Histology track"),
                                "Ephys aligned histology track")
    IN  IF ok(s2)
        THEN [s2 EXCEPT !.t["Resolved"] = put(@, "is_best", arange(Len(@["traj"])))]
        ELSE s2

\* get_insertions_with_xyz
get_insertions_with_xyz ==
    put(put(ins, "insertions", db["insertions"]),
        "ids", [i \in 1 .. Len(db["insertions"]) |-> db["insertions"][i].id])

(***************************************************************************)
(* SpecBest, the resolver: a ProbeModel built lazy, then initialise,       *)
(* find_traj_is_best and compute_best_for_provenance called in any order   *)
(* over every assignment of the insertions InsIds to the provenances.      *)
(***************************************************************************)
InsIds == {1, 2}
\* what the server can hold for one provenance: at most one record an insertion
TierChoices == {<<>>, <<1>>, <<2>>, <<2, 1>>}
\* what it answers when asked for the provenance named 'Resolved': resolved
\* is a mark on an insertion's alignment, no trajectory has it as provenance
NamedResolved == {<<>>}

\* the records of provenance p for the insertions a, those of the
\* insertions r with a resolved alignment
records(p, a, r) ==
    [i \in 1 .. Len(a) |->
        [id |-> <<p, a[i]>>, probe_insertion |-> a[i],
         alignment_resolved |-> p = "Ephys aligned histology track" /\ a[i] \in r]]

insertion(i, picks, key) ==
    [id |-> i, json |-> [xyz_picks |-> picks, extended_qc |-> [alignment_stored |-> key]]]

gui_idle == UNCHANGED <<prog, obs, ring, nedits, ninputs, alyx, pointer>>

InitBest ==
    /\ gui_unused
    /\ \E a \in [Provenances -> TierChoices] :
          \E r \in SUBSET Elems(a["Ephys aligned histology track"]) :
             /\ a["Resolved"] \in NamedResolved
             /\ db = [k \in Provenances \cup {"insertions"} |->
                        IF k = "insertions" THEN <<insertion(1, <<30, 10, 20>>, "k1")>>
                        ELSE records(k, a[k], r)]
    /\ traj = [k \in Provenances \cup {"Best"} |-> <<>>]
    /\ ins = <<>>
    /\ cvol = "None"
    /\ initialised = FALSE
    /\ fetches = [p \in Provenances |-> 0]
    /\ call = [op |-> "__init__", arg |-> "lazy", rc |-> "ok"]

entered == [t |-> traj, f |-> fetches, rc |-> "ok"]

left(op, arg, st) ==
    /\ traj' = st.t
    /\ fetches' = st.f
    /\ call' = [op |-> op, arg |-> arg, rc |-> st.rc]

call_initialise ==
    /\ ~initialised
    /\ \A p \in {"Histology track", "Ephys aligned histology track", "Resolved"} :
          fetches[p] < MaxFetches
    /\ LET st == initialise(entered)
       IN  /\ left("initialise", "", st)
           /\ IF ok(st)
              THEN ins' = get_insertions_with_xyz /\ initialised' = TRUE
              ELSE UNCHANGED <<ins, initialised>>
    /\ UNCHANGED <<db, cvol>>
    /\ gui_idle

call_find_traj_is_best(p) ==
    /\ left("find_traj_is_best", p, find_traj_is_best(entered, p))
    /\ UNCHANGED <<db, ins, cvol, initialised>>
    /\ gui_idle

call_compute_best_for_provenance(p) ==
    /\ left("compute_best_for_provenance", p, compute_best_for_provenance(entered, p))
    /\ UNCHANGED <<db, ins, cvol, initialised>>
    /\ gui_idle

NextBest ==
    \/ call_initialise
    \/ \E p \in Provenances : call_find_traj_is_best(p)
    \/ \E p \in Provenances : call_compute_best_for_provenance(p)

SpecBest == InitBest /\ [][NextBest]_vars

(***************************************************************************)
(* SpecRefetch, the resolver over a server that gains records: a           *)
(* ProbeModel built lazy over a server with records in every provenance,   *)
(* then initialise, and find_traj_is_best, compute_best_for_provenance and *)
(* get_traj_for_provenance called in any order for the provenances that    *)
(* initialise loads, while trajectories are added on the server (a         *)
(* histology track is traced, an alignment is saved).  A provenance is     *)
(* asked for at most MaxRefetches times by get_traj_for_provenance.        *)
(***************************************************************************)
MaxRefetches == 1
Refetched == {"Histology track", "Ephys aligned histology track"}

InitRefetch ==
    /\ gui_unused
    /\ \E h \in {<<1>>, <<1, 2>>, <<2, 1>>} :
          db = [k \in Provenances \cup {"insertions"} |->
                  IF k = "insertions" THEN <<insertion(1, <<30, 10, 20>>, "k1")>>
                  ELSE IF k = "Resolved" THEN <<>>
                  ELSE IF k = "Histology track" THEN records(k, h, {2})
                  ELSE IF k = "Ephys aligned histology track" THEN records(k, <<2>>, {2})
                  ELSE records(k, <<1>>, {2})]
    /\ traj = [k \in Provenances \cup {"Best"} |-> <<>>]
    /\ ins = <<>>
    /\ cvol = "None"
    /\ initialised = FALSE
    /\ fetches = [p \in Provenances |-> 0]
    /\ call = [op |-> "__init__", arg |-> "lazy", rc |-> "ok"]

\* a trajectory of provenance p is saved on the server for insertion i
server_gains(p, i) ==
    /\ \A k \in 1 .. Len(db[p]) : db[p][k].probe_insertion # i
    /\ db' = [db EXCEPT ![p] = @ \o records(p, <<i>>, {})]
    /\ UNCHANGED <<traj, ins, cvol, initialised, fetches, call>>
    /\ gui_idle

call_get_traj_for_provenance(p) ==
    /\ fetches[p] < MaxFetches + MaxRefetches
    /\ left("get_traj_for_provenance", p, get_traj_for_provenance(entered, p, no_django, p))
    /\ UNCHANGED <<db, ins, cvol, initialised>>
    /\ gui_idle

NextRefetch ==
    \/ call_initialise
    \/ initialised /\ \E p \in Refetched : call_find_traj_is_best(p)
    \/ initialised /\ \E p \in Refetched \cup {"Resolved"} : call_compute_best_for_provenance(p)
    \/ initialised /\ \E p \in Refetched : call_get_traj_for_provenance(p)
    \/ \E p \in Refetched, i \in InsIds : server_gains(p, i)

SpecRefetch == InitRefetch /\ [][NextRefetch]_vars

(***************************************************************************)
(* get_channels.  The geometry is done by library calls, Insertion.from_dict,*)
(* interpolate_along_track and EphysAlignment; a result is the call that     *)
(* made it with the arguments it was given.  A picked point is its depth     *)
(* coordinate.  The course of a call is the result, "ok" or the exception,   *)
(* and self.ins and the two records passed as the call leaves them.  An      *)
(* optional value is a sequence, empty for None and of the value otherwise.  *)
(***************************************************************************)
None == <<>>
Some(x) == <<x>>

\* the depths of the recording sites, SITES_COORDINATES[:, 1]
SITES_COORDINATES == <<20, 40>>

located(out, t, i) == [rc |-> "ok", out |-> Some(out), t |-> t, i |-> i, ins |-> ins]
failed(e, t, i) == [rc |-> e, out |-> None, t |-> t, i |-> i, ins |-> ins]

\* traj['provenance'] is Planned or Micro-manipulator
along_insertion(t, i, depths) ==
    located([by |-> "Insertion.from_dict", xyz |-> t.id, depths |-> depths], t, i)

\* a faulty variant: the picks sorted where they are stored
along_picks_sorted_in_place(t, i, rec, depths) ==
    LET sorted == [rec EXCEPT !.json.xyz_picks = Sort(@)]
    IN  [rc |-> "ok",
         out |-> Some([by |-> "interpolate_along_track", xyz |-> Sort(rec.json.xyz_picks),
                       depths |-> depths]),
         t |-> t,
         i |-> IF i = None THEN i ELSE Some(sorted),
         ins |-> IF i # None THEN ins
                 ELSE [ins EXCEPT !["insertions"] =
                          [k \in 1 .. Len(@) |-> IF @[k] = rec THEN sorted ELSE @[k]]]]

\* traj['provenance'] is Histology track: xyz[np.argsort(xyz[:, 2]), :]
along_picks(t, i, rec, depths) ==
    located([by |-> "interpolate_along_track", xyz |-> Sort(rec.json.xyz_picks),
             depths |-> depths], t, i)

\* a faulty variant: a missing alignment answered from the picks
along_alignment_or_picks(t, i, rec, depths) ==
    IF "alignment_stored" \notin DOMAIN rec.json.extended_qc
    THEN failed("KeyError", t, i)
    ELSE LET align_key == rec.json.extended_qc.alignment_stored
         IN  IF align_key \notin DOMAIN t.json
             THEN along_picks(t, i, rec, depths)
             ELSE located([by |-> "EphysAlignment", xyz |-> rec.json.xyz_picks,
                           depths |-> depths, feature |-> t.json[align_key][1],
                           track |-> t.json[align_key][2]], t, i)

\* any other provenance: the alignment stored under the insertion's key
along_alignment(t, i, rec, depths) ==
    IF "alignment_stored" \notin DOMAIN rec.json.extended_qc
    THEN failed("KeyError", t, i)
    ELSE LET align_key == rec.json.extended_qc.alignment_stored
         IN  IF align_key \notin DOMAIN t.json
             THEN failed("KeyError", t, i)
             ELSE located([by |-> "EphysAlignment", xyz |-> rec.json.xyz_picks,
                           depths |-> depths, feature |-> t.json[align_key][1],
                           track |-> t.json[align_key][2]], t, i)

\* the branch for the provenances with picked points, rec the insertion
along_track(t, i, rec, depths) ==
    IF "xyz_picks" \notin DOMAIN rec.json THEN failed("KeyError", t, i)
    ELSE IF t.provenance = "Histology track" THEN along_picks(t, i, rec, depths)
    ELSE along_alignment(t, i, rec, depths)

\* an array passed where the insertion is expected: ins['json'] on it raises
\* IndexError
ndarray(a) == [array |-> a]

get_channels(t, i, d) ==
    LET depths == IF d = None THEN SITES_COORDINATES ELSE d[1]
    IN  IF t.provenance = "Planned" \/ t.provenance = "Micro-manipulator"
        THEN along_insertion(t, i, depths)
        ELSE IF i # None /\ "json" \notin DOMAIN i[1] THEN failed("IndexError", t, i)
        ELSE IF i # None THEN along_track(t, i, i[1], depths)
        ELSE IF "ids" \notin DOMAIN ins THEN failed("KeyError", t, i)
        ELSE IF t.probe_insertion \notin Elems(ins["ids"]) THEN failed("IndexError", t, i)
        ELSE LET ins_idx == CHOOSE k \in 1 .. Len(ins["ids"]) :
                               /\ ins["ids"][k] = t.probe_insertion
                               /\ \A j \in 1 .. k - 1 : ins["ids"][j] # t.probe_insertion
             IN  along_track(t, i, ins["insertions"][ins_idx], depths)

(***************************************************************************)
(* SpecChannels: a ProbeModel built lazy, initialise, and get_channels     *)
(* called with any trajectory, with or without an insertion and depths.    *)
(***************************************************************************)
\* a stored alignment, the feature and the track anchors
anchors == <<<<0, 100>>, <<10, 110>>>>

\* a trajectory's json: no alignment, or one under the key k1
AlignmentJsons == {<<>>, [k \in {"k1"} |-> anchors]}

trajectory(p, i, j) ==
    [id |-> <<p, i>>, probe_insertion |-> i, provenance |-> p, json |-> j]

ChannelTrajs ==
    {trajectory(p, i, j) : p \in Provenances \ {"Resolved"}, i \in InsIds,
                           j \in AlignmentJsons}

picks == <<30, 10, 20>>

\* the insertions the server can hold, and those a caller can pass
InsertionChoices ==
    {<<insertion(1, picks, "k1")>>, <<insertion(2, picks, "k2"), insertion(1, picks, "k1")>>}
PassedIns == {None, Some(insertion(1, picks, "k1")), Some(insertion(1, picks, "k2"))}
PassedDepths == {None, Some(<<20>>)}

InitChannels ==
    /\ gui_unused
    /\ \E x \in InsertionChoices :
          db = [k \in Provenances \cup {"insertions"} |->
                  IF k = "insertions" THEN x
                  ELSE IF k \in {"Histology track", "Ephys aligned histology track"}
                  THEN records(k, <<1>>, {1})
                  ELSE <<>>]
    /\ traj = [k \in Provenances \cup {"Best"} |-> <<>>]
    /\ ins = <<>>
    /\ cvol = "None"
    /\ initialised = FALSE
    /\ fetches = [p \in Provenances |-> 0]
    /\ call = [op |-> "__init__", arg |-> "lazy", rc |-> "ok"]

call_get_channels(t, i, d) ==
    /\ LET r == get_channels(t, i, d)
       IN  /\ call' = [op |-> "get_channels", arg |-> <<t, i, d>>, rc |-> r.rc,
                       out |-> r.out, after |-> <<r.t, r.i>>]
           /\ ins' = r.ins
    /\ UNCHANGED <<db, traj, cvol, initialised, fetches>>
    /\ gui_idle

NextChannels ==
    \/ call_initialise
    \/ \E t \in ChannelTrajs, i \in PassedIns, d \in PassedDepths : call_get_channels(t, i, d)

SpecChannels == InitChannels /\ [][NextChannels]_vars

(***************************************************************************)
(* get_all_channels.  xyz_channels is an array with a row for each depth:  *)
(* a row is the result that get_channels returned and the depth.           *)
(* all_channels is a local name, unbound (None) until the branch iT == 0   *)
(* assigns it; np.r_[all_channels, ...] with the name unbound raises       *)
(* UnboundLocalError inside the try, and xyz2i(all_channels) outside it.   *)
(* ba.bc.xyz2i is the atlas's: a negative index for a point outside the    *)
(* volume, here the site at OutsideDepth of a trajectory located from the  *)
(* planned geometry of insertion OutsideIns.                               *)
(***************************************************************************)
OutsideIns == 2
OutsideDepth == 40

rows(out) == [k \in 1 .. Len(out.depths) |-> [of |-> out, at |-> out.depths[k]]]

xyz2i_negative(row) ==
    /\ row.of.by = "Insertion.from_dict"
    /\ row.of.xyz[2] = OutsideIns
    /\ row.at = OutsideDepth

\* all_channels[keep_idx, :]
keep_idx(all_channels) == SelectSeq(all_channels, LAMBDA row : ~xyz2i_negative(row))

\* self.get_channels(traj, depths): the depths are the second positional
\* argument, which is ins
get_channels_positional(t, depths) == get_channels(t, Some(ndarray(depths)), None)

\* the loop over the trajectories trajs[iT ..], iT from 1
RECURSIVE all_channels_from(_, _, _)
all_channels_from(trajs, iT, all_channels) ==
    IF iT > Len(trajs) THEN all_channels
    ELSE LET r == get_channels_positional(trajs[iT], SITES_COORDINATES)
             next == IF r.rc # "ok" THEN all_channels
                     ELSE IF iT = 1 THEN Some(rows(r.out[1]))
                     ELSE IF all_channels = None THEN all_channels
                     ELSE Some(all_channels[1] \o rows(r.out[1]))
         IN  all_channels_from(trajs, iT + 1, next)

get_all_channels(provenance) ==
    IF "traj" \notin DOMAIN traj[provenance] THEN [rc |-> "KeyError", out |-> None]
    ELSE LET all_channels == all_channels_from(traj[provenance]["traj"], 1, None)
         IN  IF all_channels = None THEN [rc |-> "UnboundLocalError", out |-> None]
             ELSE [rc |-> "ok", out |-> Some(keep_idx(all_channels[1]))]

(***************************************************************************)
(* SpecAll: a ProbeModel built lazy, the insertions and the trajectories   *)
(* of a provenance fetched, and get_all_channels called for any            *)
(* provenance, over servers with one or two trajectories a provenance.     *)
(***************************************************************************)
k1_aligned == [k \in {"k1"} |-> anchors]

InitAll ==
    /\ gui_unused
    /\ \E two \in [Provenances \ {"Resolved"} -> BOOLEAN] :
          db = [k \in Provenances \cup {"insertions"} |->
                  IF k = "insertions"
                  THEN <<insertion(2, picks, "k1"), insertion(1, picks, "k1")>>
                  ELSE IF k = "Resolved" THEN <<>>
                  ELSE IF two[k]
                  THEN <<trajectory(k, 2, <<>>), trajectory(k, 1, k1_aligned)>>
                  ELSE <<trajectory(k, 1, k1_aligned)>>]
    /\ traj = [k \in Provenances \cup {"Best"} |-> <<>>]
    /\ ins = <<>>
    /\ cvol = "None"
    /\ initialised = FALSE
    /\ fetches = [p \in Provenances |-> 0]
    /\ call = [op |-> "__init__", arg |-> "lazy", rc |-> "ok"]

call_get_insertions_with_xyz ==
    /\ ins = <<>>
    /\ ins' = get_insertions_with_xyz
    /\ call' = [op |-> "get_insertions_with_xyz", arg |-> "", rc |-> "ok"]
    /\ UNCHANGED <<db, traj, cvol, initialised, fetches>>
    /\ gui_idle

call_get_traj_once(p) ==
    /\ fetches[p] < MaxFetches
    /\ left("get_traj_for_provenance", p, get_traj_for_provenance(entered, p, no_django, p))
    /\ UNCHANGED <<db, ins, cvol, initialised>>
    /\ gui_idle

call_get_all_channels(p) ==
    /\ LET r == get_all_channels(p)
       IN  call' = [op |-> "get_all_channels", arg |-> p, rc |-> r.rc, out |-> r.out]
    /\ UNCHANGED <<db, traj, ins, cvol, initialised, fetches>>
    /\ gui_idle

NextAll ==
    \/ call_get_insertions_with_xyz
    \/ \E p \in Provenances \ {"Resolved"} : call_get_traj_once(p)
    \/ \E p \in Provenances \ {"Resolved"} : call_get_all_channels(p)

SpecAll == InitAll /\ [][NextAll]_vars

(***************************************************************************)
(* insertion_by_id and SpecById: a ProbeModel built lazy over a server     *)
(* holding up to MaxStored trajectories, of any provenance and insertion   *)
(* in any order, and insertion_by_id called with the id of an insertion    *)
(* the server holds or does not hold.                                      *)
(***************************************************************************)
MaxStored == 3
AskedIds == {1, 2, 3}
StoredProvenances == Provenances \ {"Resolved"}

\* a faulty variant: the last of the greatest
argmax_last(val) ==
    CHOOSE k \in 1 .. Len(val) :
        /\ \A j \in 1 .. Len(val) : val[j] <= val[k]
        /\ \A j \in k + 1 .. Len(val) : val[j] < val[k]

\* np.argmax(val): the first index of the greatest value
argmax(val) ==
    CHOOSE k \in 1 .. Len(val) :
        /\ \A j \in 1 .. Len(val) : val[j] <= val[k]
        /\ \A j \in 1 .. k - 1 : val[j] < val[k]

\* one.alyx.rest('trajectories', 'list', probe_insertion=ins_id)
rest_trajectories(ins_id) ==
    SelectSeq(db["trajectories"], LAMBDA tr : tr.probe_insertion = ins_id)

\* one.alyx.rest('insertions', 'list', id=ins_id)
rest_insertions(ins_id) == SelectSeq(db["insertions"], LAMBDA r : r.id = ins_id)

insertion_by_id(ins_id) ==
    LET trs == rest_trajectories(ins_id)
        val == [k \in 1 .. Len(trs) |-> PROV_2_VAL[trs[k].provenance]]
    IN  IF rest_insertions(ins_id) = <<>> THEN [rc |-> "IndexError", out |-> None]
        ELSE IF val = <<>> THEN [rc |-> "ValueError", out |-> None]
        ELSE [rc |-> "ok", out |-> Some(<<trs[argmax(val)], rest_insertions(ins_id)[1]>>)]

InitById ==
    /\ gui_unused
    /\ \E n \in 0 .. MaxStored :
          \E stored \in [1 .. n -> StoredProvenances \X InsIds] :
             db = [k \in {"trajectories", "insertions"} |->
                     IF k = "insertions"
                     THEN <<insertion(2, picks, "k1"), insertion(1, picks, "k1")>>
                     ELSE [i \in 1 .. n |->
                             [id |-> i, provenance |-> stored[i][1],
                              probe_insertion |-> stored[i][2]]]]
    /\ traj = [k \in Provenances \cup {"Best"} |-> <<>>]
    /\ ins = <<>>
    /\ cvol = "None"
    /\ initialised = FALSE
    /\ fetches = [p \in Provenances |-> 0]
    /\ call = [op |-> "__init__", arg |-> "lazy", rc |-> "ok"]

call_insertion_by_id(ins_id) ==
    /\ LET r == insertion_by_id(ins_id)
       IN  call' = [op |-> "insertion_by_id", arg |-> ins_id, rc |-> r.rc, out |-> r.out]
    /\ UNCHANGED <<db, traj, ins, cvol, initialised, fetches>>
    /\ gui_idle

NextById == \E ins_id \in AskedIds : call_insertion_by_id(ins_id)

SpecById == InitById /\ [][NextById]_vars

(***************************************************************************)
(* The label synchronisation of launch_phy/upload_merge_results.py, from   *)
(* "dj table that holds data" to the end of the script.  ClusterLabel is a *)
(* datajoint table with one row for a cluster and a user: a function of    *)
(* the keys <<cluster_uuid, user_name>> it holds.  insert1 adds a row, or  *)
(* with replace=True puts it in the place of the row with its key.  A      *)
(* DataFrame is the sequence of its rows.  SpecLabels: up to MaxRuns runs  *)
(* of the script by the user, who relabels clusters in phy between them,   *)
(* over a table that holds labels of the user and of another.              *)
(***************************************************************************)
MaxRuns == 2
user == "me"
Uuids == {1, 2}
Groups == {"good", "mua"}

\* the keys of ClusterLabel in the order of the primary key
KeyOrder == <<<<1, "me">>, <<1, "other">>, <<2, "me">>>>

\* cluster_group.tsv: a row for a cluster at most, in any order
ClusterInfos ==
    {info \in UNION {[1 .. n -> Uuids \X Groups] : n \in 0 .. 2} :
        \A i \in 1 .. Len(info), j \in 1 .. Len(info) : info[i][1] = info[j][1] => i = j}

column(frame, c) == [k \in 1 .. Len(frame) |-> frame[k][c]]

\* (cluster & cluster_info & {'user_name': user}).fetch of cluster_uuid, cluster_label
dj_clust(tbl, info) ==
    LET old_clust == SelectSeq(KeyOrder, LAMBDA key : /\ key \in DOMAIN tbl
                                                      /\ key[1] \in Elems(column(info, 1))
                                                      /\ key[2] = user)
    IN  [k \in 1 .. Len(old_clust) |-> <<old_clust[k][1], tbl[old_clust[k]].cluster_label>>]

\* np.where(np.isin(cluster_info['cluster_uuid'], dj_clust['cluster_uuid'], invert=True))[0]
idx_new(info, dj) ==
    SelectSeq(arange(Len(info)), LAMBDA i : info[i][1] \notin Elems(column(dj, 1)))

\* pd.merge(cluster_info, dj_clust, on='cluster_uuid'): rows <<cluster_uuid, group, cluster_label>>
comp_clust(info, dj) ==
    LET both == SelectSeq(info, LAMBDA row : row[1] \in Elems(column(dj, 1)))
        label(u) == dj[CHOOSE k \in 1 .. Len(dj) : dj[k][1] = u][2]
    IN  [k \in 1 .. Len(both) |-> <<both[k][1], both[k][2], label(both[k][1])>>]

\* a faulty variant: the rows whose label is the group
idx_change_equal(comp) == SelectSeq(arange(Len(comp)), LAMBDA i : comp[i][2] = comp[i][3])

\* np.where(comp_clust['group'] != comp_clust['cluster_label'])[0]
idx_change(comp) == SelectSeq(arange(Len(comp)), LAMBDA i : comp[i][2] # comp[i][3])

\* cluster.insert1(row, replace): the course of the run so far is st
insert1(st, key, row, replace) ==
    IF st.rc # "ok" THEN st
    ELSE IF key \in DOMAIN st.tbl /\ ~replace THEN [st EXCEPT !.rc = "DuplicateError"]
    ELSE [st EXCEPT !.tbl = put(@, key, row),
                    !.inserted = IF replace THEN @ ELSE Append(@, key[1]),
                    !.replaced = IF replace THEN Append(@, key[1]) ELSE @]

\* the loop over zip(cluster_uuid, cluster_label) from position k
RECURSIVE insert_new(_, _, _, _)
insert_new(st, new, k, current_date) ==
    IF k > Len(new) THEN st
    ELSE insert_new(insert1(st, <<new[k][1], user>>,
                            [label_time |-> current_date, cluster_label |-> new[k][2]], FALSE),
                    new, k + 1, current_date)

\* the second loop: prev_clust is the row of the user for the cluster
RECURSIVE replace_changed(_, _, _, _)
replace_changed(st, changed, k, current_date) ==
    IF k > Len(changed) THEN st
    ELSE LET prev_clust == <<changed[k][1], user>>
             s1 == IF st.rc = "ok" /\ prev_clust \notin DOMAIN st.tbl
                   THEN [st EXCEPT !.rc = "MissingAttributeError"]
                   ELSE insert1(st, prev_clust,
                                [label_time |-> current_date,
                                 cluster_label |-> changed[k][2]], TRUE)
         IN  replace_changed(s1, changed, k + 1, current_date)

label_sync(tbl, info, current_date) ==
    LET dj == dj_clust(tbl, info)
        new == Take(info, idx_new(info, dj))
        comp == comp_clust(info, dj)
        changed == Take(comp, idx_change(comp))
        st == [tbl |-> tbl, rc |-> "ok", inserted |-> <<>>, replaced |-> <<>>]
    IN  replace_changed(insert_new(st, new, 1, current_date), changed, 1, current_date)

InitLabels ==
    /\ window_unused
    /\ model_unused
    /\ \E keys \in SUBSET Elems(KeyOrder) :
          \E stored_label \in [keys -> Groups] :
             cluster = [key \in keys |->
                          [label_time |-> 0, cluster_label |-> stored_label[key]]]
    /\ cluster_info \in ClusterInfos
    /\ runs = <<>>

labels_idle ==
    UNCHANGED <<prog, obs, ring, nedits, ninputs, probe, traj_exists, presses, pointer>>

\* the script is run: current_date is later than that of every run before
upload_merge_results ==
    /\ Len(runs) < MaxRuns
    /\ LET st == label_sync(cluster, cluster_info, Len(runs) + 1)
       IN  /\ cluster' = st.tbl
           /\ runs' = Append(runs, [before |-> cluster, info |-> cluster_info, rc |-> st.rc,
                                    inserted |-> st.inserted, replaced |-> st.replaced,
                                    after |-> st.tbl])
    /\ UNCHANGED cluster_info
    /\ labels_idle

\* the user changes groups in phy, which writes cluster_group.tsv
phy_saves(info) ==
    /\ Len(runs) < MaxRuns
    /\ info # cluster_info
    /\ cluster_info' = info
    /\ UNCHANGED <<cluster, runs>>
    /\ labels_idle

NextLabels ==
    \/ upload_merge_results
    \/ \E info \in ClusterInfos : phy_saves(info)

SpecLabels == InitLabels /\ [][NextLabels]_vars

EditCmds == {"fit", "lin_fit", "offset", "reset", "move_up", "move_down"}

(***************************************************************************)
(* C1.  The ring buffer refines an unbounded linear undo history with      *)
(* truncate-on-new-edit: under fit, offset, reset, previous and next the   *)
(* slot displayed is owned by the edit whose logical number on the current *)
(* branch is current_idx and holds the arrays that edit wrote, and so does *)
(* every slot previous and next can still step to (the logical numbers     *)
(* from the undo floor up to total_idx): none was overwritten by a later   *)
(* edit, none belongs to an abandoned branch.                              *)
(***************************************************************************)
entry_intact(k) ==
    /\ owner[k % max_idx] = k
    /\ ~abandoned[k % max_idx]
    /\ wrote[k % max_idx] = <<track[k % max_idx], features[k % max_idx]>>

C1_RingRefinesLinearHistory ==
    /\ idx = current_idx % max_idx
    /\ entry_intact(current_idx)
    /\ \A k \in Max(0, total_idx - diff_idx) .. total_idx : entry_intact(k)

\* previous was pressed into a wrapped ring that still holds slots of an abandoned branch
C1_Witness ==
    /\ cmd = "prev"
    /\ took
    /\ total_idx > max_idx
    /\ \E s \in Slots : abandoned[s] /\ owner[s] > total_idx

(***************************************************************************)
(* C2.  After n <= max_idx edits from the initial state, n times previous  *)
(* and then n times next end with the current_idx, the displayed slot      *)
(* index and the displayed arrays there were before the first previous.    *)
(***************************************************************************)
C2_UndoRedoRoundTrip ==
    (rt.phase = "redo" /\ rt.k = rt.n /\ rt.n <= max_idx) => rt_shown = rt.snap

C2_Witness == rt.phase = "redo" /\ rt.k = rt.n /\ rt.n = max_idx

(***************************************************************************)
(* C4.  0 <= current_idx <= total_idx in every reachable state.            *)
(***************************************************************************)
C4_CursorWithinHistory == 0 <= current_idx /\ current_idx <= total_idx

\* an edit was made from a rewound position in a wrapped ring
C4_Witness == rewound /\ total_idx > max_idx /\ current_idx = total_idx

(***************************************************************************)
(* C5.  After max_idx + 1 or more consecutive edits, previous lowers       *)
(* current_idx down to total_idx - (max_idx - 1) and no further: the       *)
(* entries below it, whose slots were overwritten, are never displayed.    *)
(***************************************************************************)
C5_RingOverwrite ==
    streak >= max_idx + 1 =>
        /\ current_idx >= total_idx - (max_idx - 1)
        /\ owner[idx] = current_idx
        /\ owner[(total_idx - max_idx) % max_idx] = total_idx

\* previous was pressed at total_idx - (max_idx - 1) and did nothing
C5_Witness ==
    /\ streak >= max_idx + 1
    /\ cmd = "prev"
    /\ ~took
    /\ current_idx = total_idx - (max_idx - 1)

(***************************************************************************)
(* C6.  current_idx > total_idx - max_idx in every reachable state, so the *)
(* second conjunct of the guard of next never blocks: next advances        *)
(* exactly when current_idx < total_idx.                                   *)
(***************************************************************************)
C6_RedoGuardSecondConjunctIdle ==
    /\ current_idx > total_idx - max_idx
    /\ redo_guard <=> (current_idx < total_idx)
    /\ (cmd = "next" /\ ~took) => current_idx = total_idx

C6_Witness ==
    /\ cmd = "next"
    /\ took
    /\ total_idx > max_idx
    /\ current_idx = total_idx - (max_idx - 2)

(***************************************************************************)
(* C7.  previous pressed at the floor, current_idx = max(0, total_idx -    *)
(* diff_idx), changes nothing: not the cursor, not last_idx, no slot.      *)
(***************************************************************************)
C7_UndoAtFloorIsNoOp ==
    [][(cmd' = "prev" /\ current_idx = Max(0, total_idx - diff_idx))
          => UNCHANGED <<current_idx, total_idx, last_idx, diff_idx, idx, track, features>>]_vars

\* previous was pressed at a floor above 0 of a history cut by an edit
C7_Witness ==
    /\ cmd = "prev"
    /\ ~took
    /\ current_idx = Max(0, total_idx - diff_idx)
    /\ current_idx > 0
    /\ last_idx > total_idx

(***************************************************************************)
(* C8.  An edit made from a rewound position p (current_idx = p <          *)
(* total_idx) leaves total_idx = current_idx = p + 1, so next does nothing *)
(* until the next previous.                                                *)
(***************************************************************************)
C8_EditFromRewoundTruncates ==
    [][(cmd' \in EditCmds /\ took' /\ current_idx < total_idx)
          => (total_idx' = current_idx + 1 /\ current_idx' = current_idx + 1 /\ ~redo_guard')]_vars

\* an edit was made from a rewound position and left entries of the old future in the ring
C8_Witness ==
    /\ rewound
    /\ cmd \in EditCmds
    /\ total_idx = current_idx
    /\ \E s \in Slots : abandoned[s] /\ owner[s] > total_idx + 1

(***************************************************************************)
(* C3.  In every state that fit, offset, reset, move_up, move_down,        *)
(* previous and next reach, idx = current_idx mod max_idx, and current_idx *)
(* does not exceed the logical number the most recent edit produced.       *)
(***************************************************************************)
C3_CursorAlignedUnderMoves ==
    /\ idx = current_idx % max_idx
    /\ current_idx <= last_edit
    /\ last_edit = total_idx

\* a move wrapped the ring: it wrote slot 0 as entry max_idx
C3_Witness ==
    /\ cmd \in {"move_up", "move_down"}
    /\ took
    /\ current_idx = max_idx
    /\ idx = 0

(***************************************************************************)
(* C9.  In every slot an edit has written the feature array and the track  *)
(* array have the same length, whatever the number of reference lines.     *)
(***************************************************************************)
C9_SlotArraysSameLength ==
    \A s \in Slots : owner[s] # -1 => Len(features[s]) = Len(track[s])

\* a fit over three reference lines wrote five anchors, the ends extended
C9_Witness ==
    /\ cmd \in {"fit", "lin_fit"}
    /\ Len(lines_features) = 3
    /\ Len(features[idx]) = 5
    /\ features[idx][1] = features[idx_prev][1] - extend_feature

(***************************************************************************)
(* C10.  After any sequence of commands, move_up and move_down among them, *)
(* reset leaves the displayed track and feature arrays equal to            *)
(* track_init, track_init as the session loaded it, and no reference       *)
(* point.                                                                  *)
(***************************************************************************)
C10_ResetRestoresInitial ==
    /\ track_init \in TrackInits
    /\ cmd = "reset" =>
          /\ track[idx] = track_init
          /\ features[idx] = track_init
          /\ lines_features = <<>>
          /\ lines_tracks = <<>>
          /\ points = <<>>

\* reset after a move that had shifted slot 0 in place
C10_Witness ==
    /\ cmd = "reset"
    /\ track[0] # track_init
    /\ track[idx_prev] # track_init

\* the call that has just returned
returned(op, arg) == call = [op |-> op, arg |-> arg, rc |-> "ok"]

\* the insertions of the records the server holds for provenance p
held(p) == {db[p][i].probe_insertion : i \in 1 .. Len(db[p])}

\* the indices of the records of p whose insertion none of the provenances qs holds
unsuperseded(p, qs) ==
    {i \in 1 .. Len(db[p]) : \A q \in qs : db[p][i].probe_insertion \notin held(q)}

(***************************************************************************)
(* C11.  find_traj_is_best('Histology track') marks as best exactly the    *)
(* Histology-track records whose insertion is not the insertion of an      *)
(* Ephys-aligned record.                                                   *)
(***************************************************************************)
C11_HistologyBestExcludesAligned ==
    returned("find_traj_is_best", "Histology track") =>
        Elems(traj["Histology track"]["is_best"]) =
            unsuperseded("Histology track", {"Ephys aligned histology track"})

\* of two Histology-track records one was superseded and one was kept
C11_Witness ==
    /\ returned("find_traj_is_best", "Histology track")
    /\ Len(traj["Histology track"]["ins"]) = 2
    /\ Len(traj["Histology track"]["is_best"]) = 1
    /\ fetches["Ephys aligned histology track"] = 1

(***************************************************************************)
(* C12.  find_traj_is_best('Planned') marks as best exactly the Planned    *)
(* records whose insertion is the insertion neither of a Micro-manipulator *)
(* record nor of a Histology-track record.                                 *)
(***************************************************************************)
C12_PlannedBestLooksTwoLevelsUp ==
    returned("find_traj_is_best", "Planned") =>
        Elems(traj["Planned"]["is_best"]) =
            unsuperseded("Planned", {"Micro-manipulator", "Histology track"})

\* of two Planned records one was superseded by a Histology track alone
C12_Witness ==
    /\ returned("find_traj_is_best", "Planned")
    /\ Len(traj["Planned"]["ins"]) = 2
    /\ \E i \in 1 .. 2 :
          /\ traj["Planned"]["ins"][i] \in held("Histology track")
          /\ traj["Planned"]["ins"][i] \notin held("Micro-manipulator")

\* the provenances at or above p
at_or_above(p) == {q \in Provenances : PROV_2_VAL[q] >= PROV_2_VAL[p]}

RECURSIVE highest_first(_)
highest_first(S) ==
    IF S = {} THEN <<>>
    ELSE LET q == CHOOSE q \in S : \A x \in S : PROV_2_VAL[x] <= PROV_2_VAL[q]
         IN  <<q>> \o highest_first(S \ {q})

RECURSIVE lowest_first(_)
lowest_first(S) ==
    IF S = {} THEN <<>>
    ELSE LET q == CHOOSE q \in S : \A x \in S : PROV_2_VAL[x] >= PROV_2_VAL[q]
         IN  <<q>> \o lowest_first(S \ {q})

\* the records of provenance q marked best, in the order the server gave them
kept(q) ==
    Take(traj[q]["traj"],
         SelectSeq(arange(Len(traj[q]["traj"])), LAMBDA i : i \in Elems(traj[q]["is_best"])))

RECURSIVE chained(_, _)
chained(provs, i) == IF i > Len(provs) THEN <<>> ELSE kept(provs[i]) \o chained(provs, i + 1)

\* C13 as stated: compute_best_for_provenance concatenates the best records of
\* the tiers at or above min_tier from the lowest tier up, Resolved last
C13_AscendingPrecedence ==
    \A p \in Provenances :
        returned("compute_best_for_provenance", p) =>
            traj["Best"]["traj"] = chained(lowest_first(at_or_above(p)), 1)

\* C13 amended: compute_best_for_provenance concatenates the best records of
\* the tiers at or above min_tier from the highest tier down, Resolved first,
\* and within a tier the records keep their source order
C13_DescendingPrecedence ==
    \A p \in Provenances :
        returned("compute_best_for_provenance", p) =>
            traj["Best"]["traj"] = chained(highest_first(at_or_above(p)), 1)

\* two Resolved records in the server's order, then a Micro-manipulator record
C13_Witness ==
    /\ returned("compute_best_for_provenance", "Micro-manipulator")
    /\ Len(traj["Resolved"]["is_best"]) = 2
    /\ Len(traj["Micro-manipulator"]["is_best"]) = 1
    /\ Len(traj["Best"]["traj"]) = 3
    /\ traj["Best"]["traj"][3].id[1] = "Micro-manipulator"

\* C14: 'Best' as compute_best_for_provenance leaves it never holds two
\* records of one insertion that come from different tiers
C14_BestOneTierPerInsertion ==
    \A p \in Provenances :
        returned("compute_best_for_provenance", p) =>
            \A i, j \in 1 .. Len(traj["Best"]["traj"]) :
                traj["Best"]["traj"][i].probe_insertion = traj["Best"]["traj"][j].probe_insertion
                    => traj["Best"]["traj"][i].id[1] = traj["Best"]["traj"][j].id[1]

\* the number of records fetched for provenance p
count(p) == Len(traj[p]["traj"])

\* the number of records fetched for p whose insertion a record fetched for q shares
shared(p, q) ==
    Cardinality({i \in 1 .. count(p) : traj[p]["ins"][i] \in Elems(traj[q]["ins"])})

\* C15 as stated: compute_best_for_provenance('Histology track') leaves in
\* 'Best' the h - s Histology track records no Ephys aligned record shares an
\* insertion with, and all Ephys aligned and all Resolved records
C15_AllHigherTiersCounted ==
    returned("compute_best_for_provenance", "Histology track") =>
        Len(traj["Best"]["traj"]) =
            (count("Histology track")
                - shared("Histology track", "Ephys aligned histology track"))
            + count("Ephys aligned histology track") + count("Resolved")

\* C15 amended: of the Ephys aligned records only those count whose insertion
\* has no Resolved record
C15_SupersededAlignedNotCounted ==
    returned("compute_best_for_provenance", "Histology track") =>
        Len(traj["Best"]["traj"]) =
            (count("Histology track")
                - shared("Histology track", "Ephys aligned histology track"))
            + (count("Ephys aligned histology track")
                - shared("Ephys aligned histology track", "Resolved"))
            + count("Resolved")

\* two Histology track records, one superseded by an Ephys aligned record
\* that is resolved
C15_Witness ==
    /\ returned("compute_best_for_provenance", "Histology track")
    /\ count("Histology track") = 2
    /\ shared("Histology track", "Ephys aligned histology track") = 1
    /\ count("Resolved") = 1
    /\ Len(traj["Best"]["traj"]) = 2

\* C16: a call of find_traj_is_best or compute_best_for_provenance asks the
\* server for a tier at most once, and only for a tier whose records are
\* absent; the records of a tier once stored are kept and never asked for again
C16_FetchOnlyWhenAbsent ==
    [][call'.op \in {"find_traj_is_best", "compute_best_for_provenance"} =>
          \A p \in Provenances :
              /\ fetches'[p] <= fetches[p] + 1
              /\ "traj" \in DOMAIN traj[p] =>
                    /\ fetches'[p] = fetches[p]
                    /\ traj'[p]["traj"] = traj[p]["traj"]]_vars

\* after initialise had fetched three tiers, a merge from Planned up fetched
\* the two tiers that were missing and none of the three again
C16_Witness ==
    /\ returned("compute_best_for_provenance", "Planned")
    /\ initialised
    /\ \A p \in Provenances : fetches[p] = 1

\* the insertion a call of get_channels works with: the one passed, or the
\* first of the model's insertions with the trajectory's insertion id, if any
insertion_used(t, i) ==
    IF i # None THEN i
    ELSE IF "insertions" \notin DOMAIN ins THEN None
    ELSE LET own == SelectSeq(ins["insertions"], LAMBDA r : r.id = t.probe_insertion)
         IN  IF own = <<>> THEN None ELSE Some(own[1])

\* C17: a call of get_channels, whether it returns or raises, leaves
\* self.traj, self.ins, self.cvol and the two records passed as they were
C17_GetChannelsChangesNothing ==
    [][call'.op = "get_channels" =>
          /\ UNCHANGED <<traj, ins, cvol>>
          /\ call'.after = <<call'.arg[1], call'.arg[2]>>]_vars

\* a Histology track located from the model's own insertions, whose picks
\* are not in depth order
C17_Witness ==
    /\ call.op = "get_channels"
    /\ call.rc = "ok"
    /\ call.arg[1].provenance = "Histology track"
    /\ call.arg[2] = None
    /\ call.out[1].xyz # insertion_used(call.arg[1], call.arg[2])[1].json.xyz_picks

\* C18: get_channels on an Ephys aligned trajectory whose json has nothing
\* under the insertion's alignment_stored key ends in an exception and
\* returns nothing
C18_MissingAlignmentRaises ==
    (/\ call.op = "get_channels"
     /\ call.arg[1].provenance = "Ephys aligned histology track"
     /\ insertion_used(call.arg[1], call.arg[2]) # None
     /\ insertion_used(call.arg[1], call.arg[2])[1].json.extended_qc.alignment_stored
            \notin DOMAIN call.arg[1].json)
        => call.rc = "KeyError" /\ call.out = None

\* the trajectory holds an alignment, but under another key than the insertion's
C18_Witness ==
    /\ call.op = "get_channels"
    /\ call.arg[1].provenance = "Ephys aligned histology track"
    /\ call.arg[2] = None
    /\ insertion_used(call.arg[1], call.arg[2]) # None
    /\ insertion_used(call.arg[1], call.arg[2])[1].json.extended_qc.alignment_stored = "k2"
    /\ DOMAIN call.arg[1].json = {"k1"}
    /\ call.rc = "KeyError"

increasing(a) == \A k \in 1 .. Len(a) - 1 : a[k] < a[k + 1]
nondecreasing(a) == \A k \in 1 .. Len(a) - 1 : a[k] <= a[k + 1]

\* an edit has just written the slot idx'
edited == nedits' = nedits + 1 /\ cmd' \in EditCmds /\ took'

\* C19: an edit made from a slot whose mapping preserves order (features
\* increasing, track non-decreasing) writes a slot whose features are sorted
\* ascending and whose track is non-decreasing, with any number of reference
\* lines and the linear-fit option on or off
C19_SlotsStayOrdered ==
    [][(edited /\ increasing(features[idx]) /\ nondecreasing(track[idx])) =>
          (nondecreasing(features'[idx']) /\ nondecreasing(track'[idx']))]_vars

\* the marker depths of the reference points are all different
markers_distinct ==
    \A i, j \in 1 .. Len(lines_features) :
        i # j => /\ lines_features[i][1] # lines_features[j][1]
                 /\ lines_tracks[i] # lines_tracks[j]

\* C20: a fit puts the feature-marker depth of every reference point and the
\* mapped depth of its track marker at the same position of the new slot
C20_FitKeepsPairs ==
    [][(edited /\ cmd' \in {"fit", "lin_fit"} /\ markers_distinct) =>
          \A i \in 1 .. Len(lines_features) :
              \E k \in 2 .. Len(features'[idx']) - 1 :
                  /\ features'[idx'][k] = lines_features[i][1]
                  /\ track'[idx'][k] = interp1(lines_tracks[i], features[idx], track[idx])]_vars

\* the three collections have one row a reference point, and the fit point
\* of a row plots the two markers of that row
rows_aligned ==
    /\ Len(lines_features) = Len(lines_tracks)
    /\ Len(points) = Len(lines_features)
    /\ \A i \in 1 .. Len(points) : points[i] = <<lines_features[i][1], lines_tracks[i]>>

\* the rows of a after the step are those before it with one more at the end
row_appended(a, b) == Len(b) = Len(a) + 1 /\ SubSeq(b, 1, Len(a)) = a

\* C21: lines_features, lines_tracks and points always have the same rows:
\* a step that adds a row appends one to all three, a step that removes rows
\* removes the same index from all three or, at a reset, all of them, and a
\* step that keeps the number of rows moves no feature marker to another row
C21_RowsStayTogether ==
    [][/\ rows_aligned'
       /\ Len(lines_features') > Len(lines_features) =>
             /\ row_appended(lines_features, lines_features')
             /\ row_appended(lines_tracks, lines_tracks')
             /\ row_appended(points, points')
       /\ Len(lines_features') < Len(lines_features) =>
             \/ (cmd' = "reset" /\ lines_features' = <<>>)
             \/ \E i \in 1 .. Len(lines_features) :
                   /\ lines_features' = DeleteRow(lines_features, i)
                   /\ lines_tracks' = DeleteRow(lines_tracks, i)
                   /\ points' = DeleteRow(points, i)
       /\ Len(lines_features') = Len(lines_features) =>
             Cardinality({i \in 1 .. Len(lines_features) :
                             lines_features'[i] # lines_features[i]}) <= 1]_vars

\* the first of two reference points was deleted: the second is now row 1 of
\* all three
C21_Witness ==
    /\ cmd = "delete"
    /\ Len(lines_features) = 1
    /\ lines_features[1][1] = 3000
    /\ lines_tracks[1] = 3000
    /\ points[1] = <<3000, 3000>>

\* a step that is a fit: the Fit button or a change of the linear-fit option
fitted == edited /\ cmd' \in {"fit", "lin_fit"}

\* the anchors a fit writes: the two ends of the slot displayed and one for
\* every reference line
anchors_fitted == Len(lines_features) + 2

\* the lowest and the highest of the ends of the slot displayed and the
\* feature markers of the reference lines
lowest_anchor == Sort(Ends(features[idx]) \o line_feature)[1]
highest_anchor == Last(Sort(Ends(features[idx]) \o line_feature))

\* the new slot's ends are the straight line fitted through its interior
\* anchors, taken at its first and last feature anchors
ends_on_fitted_line ==
    /\ track'[idx'][1] = polyfit1(features'[idx'][1],
                                  Interior(features'[idx']), Interior(track'[idx']))
    /\ Last(track'[idx']) = polyfit1(Last(features'[idx']),
                                     Interior(features'[idx']), Interior(track'[idx']))

\* C22 as claimed: a fit extends the ends exactly when it has 5 or more
\* anchors and the linear-fit option is on; then the first and last feature
\* anchors of the new slot are 5000 um outside the first and last feature
\* anchors of the slot displayed before, and its first and last track anchors
\* are the fitted line at the extended feature values
C22_ExtendsPreviousEnds ==
    [][fitted =>
          IF anchors_fitted >= 5 /\ lin_fit'
          THEN /\ features'[idx'][1] = features[idx][1] - extend_feature
               /\ Last(features'[idx']) = Last(features[idx]) + extend_feature
               /\ ends_on_fitted_line
          ELSE features'[idx'] = Sort(Ends(features[idx]) \o line_feature)]_vars

\* C22: a fit extends the ends exactly when it has 5 or more anchors and the
\* linear-fit option is on; then the first and last feature anchors of the
\* new slot are 5000 um outside the lowest and the highest of the ends
\* displayed before and the reference lines, so never less than 5000 um
\* outside the ends displayed before, and its first and last track anchors
\* are the fitted line at the extended feature values; otherwise the feature
\* anchors are the ends displayed before and the reference lines
C22_ExtendsExtremeAnchors ==
    [][fitted =>
          IF anchors_fitted >= 5 /\ lin_fit'
          THEN /\ features'[idx'][1] = lowest_anchor - extend_feature
               /\ Last(features'[idx']) = highest_anchor + extend_feature
               /\ features'[idx'][1] <= features[idx][1] - extend_feature
               /\ Last(features'[idx']) >= Last(features[idx]) + extend_feature
               /\ ends_on_fitted_line
          ELSE features'[idx'] = Sort(Ends(features[idx]) \o line_feature)]_vars

\* two fits in a row with three reference lines, the highest above the
\* initial feature range, and the linear-fit option on: the first fit put
\* the last anchor 5000 um above that line, the second 5000 um above the
\* first's
C22_Witness ==
    /\ cmd = "fit"
    /\ nedits = 2
    /\ Len(features[idx]) = 5
    /\ lines_features[3][1] > Last(track_init)
    /\ features[idx][1] = track_init[1] - 2 * extend_feature
    /\ Last(features[idx]) = lines_features[3][1] + 2 * extend_feature

\* C23: a fit that does not extend the ends and has at least 3 anchors gives
\* the first and the last segment of the new slot unit slope, its feature
\* anchors are the sorted ends and reference lines, and its interior track
\* anchors are the interpolated ones
C23_NudgedEndsUnitSlope ==
    [][(fitted /\ ~(anchors_fitted >= 5 /\ lin_fit') /\ anchors_fitted >= 3) =>
          LET f == features'[idx']
              t == track'[idx']
              n == Len(f)
          IN  /\ t[2] - t[1] = f[2] - f[1]
              /\ t[n] - t[n - 1] = f[n] - f[n - 1]
              /\ f = Sort(Ends(features[idx]) \o line_feature)
              /\ Interior(t) = Interior(scale_track0(features[idx], track[idx]))]_vars

\* a fit with one reference line whose track marker was dragged away from its
\* feature marker: the two segments have unit slope and the ends moved
C23_Witness ==
    /\ cmd = "fit"
    /\ Len(features[idx]) = 3
    /\ track[idx][2] # features[idx][2]
    /\ track[idx][2] - track[idx][1] = features[idx][2] - features[idx][1]
    /\ track[idx][3] - track[idx][2] = features[idx][3] - features[idx][2]
    /\ track[idx][1] # track_init[1]

\* the slot an edit writes
written == (current_idx + 1) % max_idx

\* C24: a command that makes a history entry (fit, offset, reset, move up,
\* move down) changes the arrays of the slot (current_idx + 1) mod max_idx
\* and of no other slot, the displayed one included
C24_EditWritesOneSlot ==
    [][edited =>
          \A s \in 0 .. max_idx - 1 :
              s # written => (track'[s] = track[s] /\ features'[s] = features[s])]_vars

\* C25: a fit, an offset or a reset that fails in the coordinate transform
\* or in the region scaling leaves current_idx, total_idx, diff_idx, idx and
\* every slot as they were before the command
C25_FailedEditChangesNothing ==
    [][cmd' \in FailedCmds =>
          UNCHANGED <<current_idx, total_idx, diff_idx, idx, track, features>>]_vars

\* the undo floor when the highest total_idx so far is h: the oldest entry
\* whose slot no later entry has taken
oldest_kept(h) == Max(0, h - max_idx + 1)

\* C26: after every edit, whichever branch computed diff_idx, max(0,
\* total_idx - diff_idx) is max(0, H - max_idx + 1), H the highest value
\* total_idx has had
C26_FloorIsOldestKept ==
    [][cmd' \in EditCmds => undo_floor' = oldest_kept(highest')]_vars

\* an edit from a rewound position whose slot difference was negative, in a
\* ring that had wrapped: total_idx is below the highest and the floor is not 0
C26_Witness ==
    /\ cmd \in EditCmds
    /\ rewound
    /\ total_idx < highest
    /\ highest > max_idx
    /\ diff_idx < total_idx
    /\ (last_idx % max_idx) < ((current_idx - 1) % max_idx)

\* the logical entries previous and next can show: from the undo floor to
\* total_idx
reachable_entries == undo_floor .. total_idx

\* C27: after every edit diff_idx is between 1 and max_idx - 1; an edit made
\* with current_idx < last_idx is never made with last_idx and total_idx (the
\* position it is made from) in the same slot, since last_idx is then 1 to
\* max_idx - 1 above current_idx; and the entries from the undo floor to
\* total_idx are in pairwise distinct slots
C27_DiffIdxWithinRing ==
    [][cmd' \in EditCmds =>
          /\ 1 <= diff_idx' /\ diff_idx' <= max_idx - 1
          /\ rewind => /\ 1 <= last_idx - current_idx
                       /\ last_idx - current_idx <= max_idx - 1
                       /\ (last_idx % max_idx) # (current_idx % max_idx)
          /\ \A m, n \in reachable_entries' :
                m # n => (m % max_idx) # (n % max_idx)]_vars

\* an edit made nine entries below last_idx in a ring that had wrapped:
\* diff_idx is 1, and the two entries left to show are in two slots
C27_Witness ==
    /\ cmd \in EditCmds
    /\ rewound
    /\ highest > max_idx
    /\ diff_idx = 1
    /\ last_idx - (current_idx - 1) = max_idx - 1
    /\ Cardinality({n % max_idx : n \in reachable_entries}) = 2

\* the cursor after an edit, as fit_button_pressed leaves it
cursor_as_fit ==
    /\ current_idx' = current_idx + 1
    /\ total_idx' = (IF current_idx < last_idx THEN current_idx ELSE total_idx) + 1
    /\ diff_idx' = edit_diff_idx
    /\ idx' = (current_idx + 1) % max_idx
    /\ idx_prev' = idx
    /\ last_idx' = last_idx

\* C28: an offset writes into the new slot the track of the slot displayed
\* with the position of the probe-tip line added to every element and the
\* features of the slot displayed, and moves the cursor as a fit does
C28_OffsetAddsTipPosition ==
    [][(edited /\ cmd' = "offset") =>
          /\ track'[written] = [i \in 1 .. Len(track[idx]) |-> track[idx][i] + tip_pos]
          /\ features'[written] = features[idx]
          /\ cursor_as_fit]_vars

\* an offset made with the probe-tip line dragged 40 um down
C28_Witness ==
    /\ cmd = "offset"
    /\ took
    /\ idx = (idx_prev + 1) % max_idx
    /\ track[idx] = [i \in 1 .. Len(track[idx_prev]) |-> track[idx_prev][i] - 40]
    /\ features[idx] = features[idx_prev]
    /\ features[idx] # track[idx]

\* a step that is a press of move down or move up
moved_down == cmd' = "move_down" /\ nedits' = nedits + 1
moved_up == cmd' = "move_up" /\ nedits' = nedits + 1

\* C29 as claimed: move down (move up) changes neither the cursor nor any
\* slot when shifting the displayed track by 50 um would put its last
\* (first) point below (above) the highest (lowest) channel depth; otherwise
\* it makes one offset edit, and current_idx and total_idx are both one more
C29_MoveAdvancesBothByOne ==
    [][/\ (moved_down /\ Last(track[idx]) - move_step < chn_max) => UNCHANGED prog
       /\ (moved_up /\ track[idx][1] + move_step > chn_min) => UNCHANGED prog
       /\ (moved_down /\ Last(track[idx]) - move_step >= chn_max) =>
             (current_idx' = current_idx + 1 /\ total_idx' = total_idx + 1)
       /\ (moved_up /\ track[idx][1] + move_step <= chn_min) =>
             (current_idx' = current_idx + 1 /\ total_idx' = total_idx + 1)]_vars

\* the new slot holds the displayed track shifted by c and by the position
\* of the probe-tip line, and the displayed features
offset_written(c) ==
    /\ track'[written] = [i \in 1 .. Len(track[idx]) |-> track[idx][i] + c + tip_pos]
    /\ features'[written] = features[idx]

\* C29: move down (move up) changes neither the cursor nor any slot when
\* shifting the displayed track by 50 um would put its last (first) point
\* below (above) the highest (lowest) channel depth; otherwise it makes one
\* offset edit of the shifted track: current_idx is one more, and total_idx
\* is the new current_idx
C29_MoveIsGuardedOffset ==
    [][/\ (moved_down /\ Last(track[idx]) - move_step < chn_max) => UNCHANGED prog
       /\ (moved_up /\ track[idx][1] + move_step > chn_min) => UNCHANGED prog
       /\ (moved_down /\ Last(track[idx]) - move_step >= chn_max) =>
             /\ current_idx' = current_idx + 1
             /\ total_idx' = current_idx + 1
             /\ offset_written(-move_step)
       /\ (moved_up /\ track[idx][1] + move_step <= chn_min) =>
             /\ current_idx' = current_idx + 1
             /\ total_idx' = current_idx + 1
             /\ offset_written(move_step)]_vars

\* a move down made after an undo: total_idx is where it was, at the new
\* current_idx
C29_Witness ==
    /\ cmd = "move_down"
    /\ took
    /\ nedits = 2
    /\ last_idx = current_idx
    /\ total_idx = current_idx
    /\ total_idx = 1

\* the positions of the uploads among the calls p of a press
uploads_in(p) == {i \in 1 .. Len(p) : p[i][1] = "upload_channels"}

\* C30: a press of Complete uploads at most once; an upload comes after a Yes
\* to the question and, when traj_exists, after a Yes to the overwrite
\* warning too and is then made with overwrite=True; get_trajectory is the
\* next call after every upload; and a press with a No makes no upload
C30_UploadOnlyWhenConfirmed ==
    [][presses' # presses =>
          LET p == presses'[Len(presses')]
          IN  /\ presses' = Append(presses, p)
              /\ Cardinality(uploads_in(p)) <= 1
              /\ \A i \in uploads_in(p) :
                    /\ \E j \in 1 .. i - 1 : p[j] = question("Yes")
                    /\ traj_exists => /\ \E j \in 1 .. i - 1 : p[j] = warning("Yes")
                                      /\ p[i] = upload_channels("overwrite=True")
                    /\ i < Len(p)
                    /\ p[i + 1] = get_trajectory
              /\ (\E j \in 1 .. Len(p) : p[j][2] = "No") => uploads_in(p) = {}]_vars

\* a second press, with the trajectory of the first on the store: Yes to
\* both boxes, and the upload made with overwrite=True
C30_Witness ==
    /\ Len(presses) = 2
    /\ presses[1] = <<question("Yes"), upload_channels(""), get_trajectory,
                      information("uploaded")>>
    /\ presses[2] = <<question("Yes"), warning("Yes"), upload_channels("overwrite=True"),
                      get_trajectory, information("uploaded")>>
    /\ traj_exists

\* the two dotted lines are probe_top apart and each within its bounds
dotted_lines_settled ==
    /\ top_pos - tip_pos = probe_top
    /\ tip_bounds(track[idx])[1] <= tip_pos /\ tip_pos <= tip_bounds(track[idx])[2]
    /\ top_bounds(track[idx])[1] <= top_pos /\ top_pos <= top_bounds(track[idx])[2]

markers_together ==
    \A i \in 1 .. Len(lines_features) :
        lines_features[i][1] = lines_features[i][2]
            /\ lines_features[i][2] = lines_features[i][3]

\* the reference lines as they were when the marker was grabbed, but for its
\* reference point, whose three markers are where the marker was dragged to
lines_features_expected ==
    [grabbed[1] EXCEPT ![grabbed[2]] = <<grabbed[4], grabbed[4], grabbed[4]>>]

\* C32: once a feature marker of a reference point has been moved, the calls
\* of update_lines_features come to an end, and when they have, the three
\* markers of that point are at the position the marker was moved to and the
\* markers of every other reference point are where they were
C32_MarkersFollowTheMovedOne ==
    /\ (stack # <<>>) ~> (stack = <<>>)
    /\ [](stack = <<>> /\ cmd = "update_lines_features"
            => markers_together /\ lines_features = lines_features_expected)

\* the middle marker of the second reference point was dragged: the slot ran
\* for it, for the first marker and for the third, and the first point stayed
C32_Witness ==
    /\ cmd = "update_lines_features"
    /\ stack = <<>>
    /\ Len(lines_features) = 2
    /\ lines_features[1] = <<1000, 1000, 1000>>
    /\ lines_features[2] = <<2500, 2500, 2500>>
    /\ points[2] = <<2500, 3000>>
    /\ grabbed = <<<<<<1000, 1000, 1000>>, <<3000, 3000, 3000>>>>, 2, 2, 2500>>

\* Del is pressed in this step
delete_pressed == cmd' \in DeleteCmds /\ ninputs' # ninputs

\* the row of a marker of a reference point is taken out of the three arrays
one_triple_removed ==
    /\ selected_line[1] \in {"feature", "track"}
    /\ lines_features' = DeleteRow(lines_features, selected_line[2])
    /\ lines_tracks' = DeleteRow(lines_tracks, selected_line[2])
    /\ points' = DeleteRow(points, selected_line[2])

\* C33: Del either removes the one triple of the reference point whose marker
\* is selected or leaves the three arrays as they are, and never raises:
\* not when pressed twice without a hover between, nor before any hover, nor
\* with the probe-tip or probe-top line selected
C33_DeleteNeverFails ==
    [][delete_pressed =>
          /\ cmd' # "delete_raised"
          /\ one_triple_removed \/ UNCHANGED <<lines_features, lines_tracks, points>>]_vars

\* every record of Resolved is marked best
resolved_all_best ==
    /\ {"traj", "is_best"} \subseteq DOMAIN traj["Resolved"]
    /\ traj["Resolved"]["is_best"] = arange(Len(traj["Resolved"]["traj"]))

\* C34: every record of Resolved, the tier nothing supersedes, is best, and
\* compute_best_for_provenance completes for every lowest tier asked for,
\* whether initialise marked Resolved or, in a model built lazy, the first
\* reference to its is_best has to
C34_ResolvedAlwaysBest ==
    call.op = "compute_best_for_provenance" => call.rc = "ok" /\ resolved_all_best

\* the tier next above p, and what the store holds for a tier: for Resolved
\* the aligned records of resolved insertions and whatever bears its name
next_provenance(p) == VAL_2_PROV(PROV_2_VAL[p] + 20)
stored(q) ==
    IF q = "Resolved"
    THEN rest("Ephys aligned histology track", alignment_resolved) \o db["Resolved"]
    ELSE db[q]

\* C36: with no record in the store for the tier next above, find_traj_is_best
\* completes and marks every record of the tier best; and no fetch and no
\* best computation fails on a tier without records
C36_EmptyTierIsHarmless ==
    /\ \A p \in {"Micro-manipulator", "Histology track", "Ephys aligned histology track"} :
          call.op = "find_traj_is_best" /\ call.arg = p /\ stored(next_provenance(p)) = <<>>
              => /\ call.rc = "ok"
                 /\ {"traj", "is_best"} \subseteq DOMAIN traj[p]
                 /\ traj[p]["is_best"] = arange(Len(traj[p]["traj"]))
    /\ call.rc # "ValueError"

\* the is_best of tier p points into the tier's arrays as they are now, at
\* records that the arrays of the tier next above do not supersede
is_best_current(p) ==
    /\ {"traj", "ins"} \subseteq DOMAIN traj[p]
    /\ \A k \in Elems(traj[p]["is_best"]) :
          /\ k \in 1 .. Len(traj[p]["traj"])
          /\ k \in 1 .. Len(traj[p]["ins"])
          /\ p # "Resolved" /\ "ins" \in DOMAIN traj[next_provenance(p)]
                => traj[p]["ins"][k] \notin Elems(traj[next_provenance(p)]["ins"])

\* C35: whenever a tier has an is_best, each of its indices is a position of
\* the tier's current traj and ins arrays and is of a record whose insertion
\* the current records of the tier next above do not hold; so too after a
\* tier was fetched again and compute_best_for_provenance called
C35_IsBestFollowsRefetch ==
    \A p \in Provenances : "is_best" \in DOMAIN traj[p] => is_best_current(p)

\* the rows of the trajectories trajs[iT ..] that get_channels locates by the
\* strategy of their provenance, one after the other
RECURSIVE located_rows(_, _)
located_rows(trajs, iT) ==
    IF iT > Len(trajs) THEN <<>>
    ELSE LET r == get_channels(trajs[iT], None, Some(SITES_COORDINATES))
         IN  (IF r.rc = "ok" THEN rows(r.out[1]) ELSE <<>>) \o located_rows(trajs, iT + 1)

\* C37: get_all_channels leaves out a trajectory whose channels cannot be
\* computed and returns the channels of all the others of the provenance,
\* in the order of the trajectories, those within the atlas volume; a
\* trajectory that fails, the first included, does not keep the others out,
\* and each is located by the strategy of its provenance
C37_AllChannelsSkipsFailures ==
    call.op = "get_all_channels" /\ "traj" \in DOMAIN traj[call.arg]
        => /\ call.rc = "ok"
           /\ call.out = Some(keep_idx(located_rows(traj[call.arg]["traj"], 1)))

\* the positions in the server's list of the trajectories of insertion i
stored_for(i) ==
    {k \in 1 .. Len(db["trajectories"]) : db["trajectories"][k].probe_insertion = i}

rank(k) == PROV_2_VAL[db["trajectories"][k].provenance]

\* C38: insertion_by_id returns a trajectory stored for the insertion whose
\* provenance has the greatest value in PROV_2_VAL among them, the first
\* such in the order of the list, and the record of the insertion
C38_ByIdReturnsHighestRanked ==
    call.op = "insertion_by_id" /\ call.arg \in InsIds /\ stored_for(call.arg) # {}
        => /\ call.rc = "ok"
           /\ \E k \in stored_for(call.arg) :
                 /\ call.out[1][1] = db["trajectories"][k]
                 /\ \A j \in stored_for(call.arg) :
                       rank(j) <= rank(k) /\ (j < k => rank(j) < rank(k))
           /\ call.out[1][2].id = call.arg
           /\ call.out[1][2] \in Elems(db["insertions"])

\* three trajectories of insertion 1, the two last of the same, greatest
\* value: the second of the list is returned
C38_Witness ==
    /\ call.op = "insertion_by_id"
    /\ call.arg = 1
    /\ call.rc = "ok"
    /\ stored_for(1) = {1, 2, 3}
    /\ rank(1) < rank(2)
    /\ rank(2) = rank(3)
    /\ call.out[1][1].id = 2

\* the group that phy gives cluster u in the run r
group_in(r, u) == r.info[CHOOSE k \in 1 .. Len(r.info) : r.info[k][1] = u][2]

no_duplicates(a) == \A i \in 1 .. Len(a), j \in 1 .. Len(a) : a[i] = a[j] => i = j

\* the run r inserted for just the clusters without a label of the user,
\* replaced for just those whose label was not the group, each once, and
\* left every other row of the table as it was
synchronised(r) ==
    LET listed == Elems(column(r.info, 1))
        unlabelled == {u \in listed : <<u, user>> \notin DOMAIN r.before}
        differing == {u \in listed \ unlabelled :
                         r.before[<<u, user>>].cluster_label # group_in(r, u)}
    IN  /\ r.rc = "ok"
        /\ Elems(r.inserted) = unlabelled /\ no_duplicates(r.inserted)
        /\ Elems(r.replaced) = differing /\ no_duplicates(r.replaced)
        /\ DOMAIN r.after = DOMAIN r.before \cup {<<u, user>> : u \in unlabelled}
        /\ \A key \in DOMAIN r.after :
              IF key[2] = user /\ key[1] \in unlabelled \cup differing
              THEN r.after[key].cluster_label = group_in(r, key[1])
              ELSE r.after[key] = r.before[key]

\* C39: a run of the label synchronisation inserts a label for just the
\* clusters that have none of this user, replaces the label of just those
\* whose label is not the group phy gives, and touches no cluster whose label
\* is the group; a run after a run with cluster_group.tsv unchanged inserts
\* nothing and replaces nothing
C39_LabelSyncIsIdempotent ==
    /\ \A n \in 1 .. Len(runs) : synchronised(runs[n])
    /\ \A n \in 1 .. Len(runs) - 1 :
          runs[n + 1].info = runs[n].info
              => runs[n + 1].inserted = <<>> /\ runs[n + 1].replaced = <<>>

\* a first run that inserted a label, replaced one and left one of another
\* user, and a second run on the same file
C39_Witness ==
    /\ Len(runs) = 2
    /\ runs[2].info = runs[1].info
    /\ runs[1].inserted = <<2>>
    /\ runs[1].replaced = <<1>>
    /\ <<1, "other">> \in DOMAIN runs[1].before
    /\ runs[2].after = runs[1].after

====
